---------------------------- MODULE Spec2Model ----------------------------
(***************************************************************************)
(* A model of the x402 Summariser bot.                                     *)
(*                                                                         *)
(*   - the pending-callback maps of src/src/pending.ts and their users in  *)
(*     src/src/index.ts and src/src/telegram.ts        (specification Spec)*)
(*   - the Telegram message buffer of src/unnamed/part_005    (SpecStore)  *)
(*   - the payment gate of the Bun.serve fetch handler        (SpecGate)   *)
(*   - the summary post-processing pipeline of src/src/agent.ts            *)
(*                                             (SpecFinalize, SpecScore)   *)
(*                                                                         *)
(* Text is modelled as TLA+ strings, one element per UTF-16 code unit.     *)
(* Characters outside ASCII cannot be written in a TLA+ string; the ones   *)
(* the code tests for are written with otherwise unused ASCII stand-ins:   *)
(*     "@"  U+2022 BULLET            "~"  U+2014 EM DASH                   *)
(*     "^"  U+2B50, a one-unit character with the Unicode Emoji property   *)
(* Each stand-in is classified by the character classes below exactly as   *)
(* the character it stands for is classified by the JavaScript regexes.    *)
(***************************************************************************)
EXTENDS Integers, Sequences, FiniteSets, TLC

(***************************************************************************)
(* Strings                                                                 *)
(***************************************************************************)
BULLET == "@"
EMDASH == "~"
EMOJI == "^"

\* s.charAt(i-1), "" when out of range
At(s, i) == IF i >= 1 /\ i <= Len(s) THEN SubSeq(s, i, i) ELSE ""

\* s.slice(i-1)
From(s, i) == IF i > Len(s) THEN "" ELSE SubSeq(s, i, Len(s))

\* s.slice(0, n)
Take(s, n) == IF n <= 0 THEN "" ELSE IF n >= Len(s) THEN s ELSE SubSeq(s, 1, n)

\* s.startsWith(p, i-1)
MatchAt(s, p, i) ==
  i >= 1 /\ i + Len(p) - 1 <= Len(s) /\ SubSeq(s, i, i + Len(p) - 1) = p

StartsWith(s, p) == MatchAt(s, p, 1)

EndsWith(s, p) == Len(p) <= Len(s) /\ MatchAt(s, p, Len(s) - Len(p) + 1)

\* s.includes(p)
Includes(s, p) == \E i \in 1..(Len(s) - Len(p) + 1) : MatchAt(s, p, i)

\* s.indexOf(p) + 1, 0 when absent
IndexOf(s, p) ==
  IF Includes(s, p)
  THEN CHOOSE i \in 1..(Len(s) - Len(p) + 1) :
         MatchAt(s, p, i) /\ \A j \in 1..(i - 1) : ~MatchAt(s, p, j)
  ELSE 0

DigitChars == {"0", "1", "2", "3", "4", "5", "6", "7", "8", "9"}
LowerChars == {"a", "b", "c", "d", "e", "f", "g", "h", "i", "j", "k", "l", "m",
               "n", "o", "p", "q", "r", "s", "t", "u", "v", "w", "x", "y", "z"}
UpperChars == {"A", "B", "C", "D", "E", "F", "G", "H", "I", "J", "K", "L", "M",
               "N", "O", "P", "Q", "R", "S", "T", "U", "V", "W", "X", "Y", "Z"}
LetterChars == LowerChars \cup UpperChars
\* \w
WordChars == LetterChars \cup DigitChars \cup {"_"}
\* \s
SpaceChars == {" ", "\n", "\t", "\r"}

Digits == "0123456789"

\* String(n) for a natural number
RECURSIVE NatToStr(_)
NatToStr(n) ==
  IF n < 10 THEN At(Digits, n + 1)
  ELSE NatToStr(n \div 10) \o At(Digits, (n % 10) + 1)

\* ---- String.prototype and RegExp pieces the pipeline uses
LowerAlphabet == "abcdefghijklmnopqrstuvwxyz"
UpperAlphabet == "ABCDEFGHIJKLMNOPQRSTUVWXYZ"

LowerChar(c) == IF c \in UpperChars THEN At(LowerAlphabet, IndexOf(UpperAlphabet, c)) ELSE c
UpperChar(c) == IF c \in LowerChars THEN At(UpperAlphabet, IndexOf(LowerAlphabet, c)) ELSE c

\* pieces[lo] \o ... \o pieces[hi]: what a global replace leaves of a string
\* when pieces[i] is what it puts in the place of the character at i
RECURSIVE Concat(_, _, _)
Concat(pieces, lo, hi) ==
  IF lo > hi THEN ""
  ELSE IF lo = hi THEN pieces[lo]
  ELSE LET mid == (lo + hi) \div 2
       IN Concat(pieces, lo, mid) \o Concat(pieces, mid + 1, hi)

\* s.toLowerCase()
toLowerCase(s) == Concat([i \in 1..Len(s) |-> LowerChar(At(s, i))], 1, Len(s))

\* the length of the longest prefix of s made of characters of class
Run(s, class) ==
  LET stop == CHOOSE i \in 1..(Len(s) + 1) :
                /\ i = Len(s) + 1 \/ At(s, i) \notin class
                /\ \A j \in 1..(i - 1) : At(s, j) \in class
  IN stop - 1

\* the length of the longest suffix of s made of characters of class
RunBack(s, class) ==
  CHOOSE n \in 0..Len(s) :
    /\ n = Len(s) \/ At(s, Len(s) - n) \notin class
    /\ \A k \in 1..n : At(s, Len(s) - k + 1) \in class

\* s with the characters of class at its end removed: s.replace(/[class]+$/, "")
StripEnd(s, class) == Take(s, Len(s) - RunBack(s, class))

\* s.trimStart(), s.trimEnd(), s.trim()
trimStart(s) == From(s, Run(s, SpaceChars) + 1)
trimEnd(s) == StripEnd(s, SpaceChars)
trim(s) == trimEnd(trimStart(s))

\* s.replace(/\s+/g, " "): a space for the first character of a run of
\* whitespace, nothing for the others
CollapseSpaces(s) ==
  Concat([i \in 1..Len(s) |->
            IF At(s, i) \notin SpaceChars THEN At(s, i)
            ELSE IF At(s, i - 1) \in SpaceChars THEN "" ELSE " "], 1, Len(s))

\* the first position from i on of a character of class in s, 0 when there
\* is none
FirstOf(s, class, i) ==
  LET hit == CHOOSE j \in i..(Len(s) + 1) :
               /\ j = Len(s) + 1 \/ At(s, j) \in class
               /\ \A k \in i..(j - 1) : At(s, k) \notin class
  IN IF hit > Len(s) THEN 0 ELSE hit

\* s.split(/[class]+/)
RECURSIVE SplitRuns(_, _)
SplitRuns(s, class) ==
  LET i == FirstOf(s, class, 1)
  IN IF i = 0 THEN <<s>>
     ELSE <<Take(s, i - 1)>>
          \o SplitRuns(From(s, i + Run(From(s, i), class)), class)

\* s.split(/\n+/) and s.split(/\s+/)
SplitLines(s) == SplitRuns(s, {"\n"})
SplitSpaces(s) == SplitRuns(s, SpaceChars)

(***************************************************************************)
(* encodeURIComponent / decodeURIComponent on the characters a callback    *)
(* token is made of: letters, digits, ":" and "%".                         *)
(***************************************************************************)
RECURSIVE encodeURIComponent(_)
encodeURIComponent(s) ==
  IF s = "" THEN ""
  ELSE (CASE Head(s) = ":" -> "%3A"
          [] Head(s) = "%" -> "%25"
          [] OTHER -> Head(s)) \o encodeURIComponent(Tail(s))

\* decodeURIComponent throws URIError on a "%" that starts no escape
RECURSIVE DecodeThrows(_)
DecodeThrows(s) ==
  IF s = "" THEN FALSE
  ELSE IF Head(s) = "%"
       THEN IF Take(s, 3) \in {"%3A", "%3a", "%25"}
            THEN DecodeThrows(From(s, 4))
            ELSE TRUE
       ELSE DecodeThrows(Tail(s))

RECURSIVE decodeURIComponent(_)
decodeURIComponent(s) ==
  IF s = "" THEN ""
  ELSE IF Take(s, 3) \in {"%3A", "%3a"} THEN ":" \o decodeURIComponent(From(s, 4))
  ELSE IF Take(s, 3) = "%25" THEN "%" \o decodeURIComponent(From(s, 4))
  ELSE Head(s) \o decodeURIComponent(Tail(s))

(***************************************************************************)
(* Bounds of the model                                                     *)
(***************************************************************************)
\* summarise commands issued (payment tokens generated) in one behaviour
MaxCommands == 2
\* clock steps in one behaviour
MaxTicks == 2

(***************************************************************************)
(* Program constants                                                       *)
(***************************************************************************)
PAYMENT_CALLBACK_EXPIRY_MS == 3600000
SWEEP_INTERVAL_MS == 1800000
DEFAULT_LOOKBACK_MINUTES == 60

VARIABLES
  \* ---- pending callbacks (Spec)
  now,                       \* Date.now(), ms since the process started
  ticks,                     \* clock steps taken (bounds the behaviour)
  nextSweep,                 \* when the setInterval sweep is next due
  botToken,                  \* whether TELEGRAM_BOT_TOKEN is set
  pendingDiscordCallbacks,   \* Map<string, DiscordCallbackData>
  pendingTelegramCallbacks,  \* Map<string, TelegramCallbackData>
  issued,                    \* tokens generated so far, in order
  commands,                  \* summarise commands between "payment message
                             \* sent" and "entry registered", by token
  published,                 \* tokens whose payment link is visible in the chat
  deliveries,                \* one record per consumed token: the posting of
                             \* the summary (Promise.race, retry)
  consumed                   \* per platform and token: how many callbacks
                             \* found the entry, and the answers given to
                             \* the callbacks that came after the first such

clockVars == <<now, ticks>>

pendingVars == <<nextSweep, botToken, pendingDiscordCallbacks,
                 pendingTelegramCallbacks, issued, commands, published,
                 deliveries, consumed>>

VARIABLES
  messageStore,   \* Map<number, TelegramStoredMessage[]>
  nextMessageId,  \* the id Telegram gives the next message
  inserts,        \* addTelegramMessage calls so far
  lastInsert      \* the last addTelegramMessage call: its arguments, the
                  \* time, and the store before and after it

storeVars == <<messageStore, nextMessageId, inserts, lastInsert>>

VARIABLES
  requests   \* the requests received so far, each with its progress

gateVars == <<requests>>

VARIABLES
  fin,   \* a finalizeSummary call: its arguments and what it returned
  sc     \* a scoreBullet comparison: the bullet and the two scores

VARIABLES
  fetch,  \* a fetchMessagesBetween call: its loop variables and its outcome
  req,    \* a summarise request in one of the orchestrators
  ops     \* the calls of the buffer's operations so far

flowVars == <<fetch, req, ops>>

VARIABLES
  fn      \* a call of one of the other functions: its arguments and what
          \* it returned

pipeVars == <<fin, sc, flowVars, fn>>

vars == <<clockVars, pendingVars, storeVars, gateVars, pipeVars>>

\* no call in progress
NoCall == [pc |-> "idle"]

\* Map.set / Map.delete on a map modelled as a function
MapSet(m, k, v) == [x \in (DOMAIN m) \cup {k} |-> IF x = k THEN v ELSE m[x]]
MapDelete(m, k) == [x \in (DOMAIN m) \ {k} |-> m[x]]
EmptyMap == [x \in {} |-> 0]

Platforms == {"discord", "telegram"}
ChatIds == {7}
\* crypto.randomUUID() / the interaction token Discord makes up: the n-th one
FreshId(n) == "u" \o NatToStr(n)

\* telegram.ts: `${chatId}:${Date.now()}:${crypto.randomUUID()}`
TelegramToken(chatId, t, uuid) ==
  NatToStr(chatId) \o ":" \o NatToStr(t) \o ":" \o uuid

IssuedTokens == {issued[i].token : i \in DOMAIN issued}

PendingInit ==
  /\ now = 0
  /\ ticks = 0
  /\ nextSweep = SWEEP_INTERVAL_MS
  /\ botToken \in BOOLEAN
  /\ pendingDiscordCallbacks = EmptyMap
  /\ pendingTelegramCallbacks = EmptyMap
  /\ issued = <<>>
  /\ commands = EmptyMap
  /\ published = {}
  /\ deliveries = <<>>
  /\ consumed = [p \in Platforms |-> EmptyMap]

(***************************************************************************)
(* lookback.ts                                                             *)
(***************************************************************************)
MAX_LOOKBACK_MINUTES == 480

\* A JavaScript value that can reach validateLookback: undefined, null, a
\* boolean, a number or a string.
Undefined == [type |-> "undefined"]
Null == [type |-> "null"]
BooleanValue(b) == [type |-> "boolean", value |-> b]
NumberValue(x) == [type |-> "number", value |-> x]
StringValue(s) == [type |-> "string", text |-> s]

\* A JavaScript number, as far as Number.isFinite, Math.floor and the
\* comparisons with integers tell numbers apart: NaN, an infinity, or a
\* finite value given by its sign, the integer part of its magnitude and
\* whether a fractional part is left.
NaN == [kind |-> "NaN"]
Infinity(neg) == [kind |-> "Infinity", neg |-> neg]
Finite(neg, whole, frac) == [kind |-> "finite", neg |-> neg, whole |-> whole, frac |-> frac]
\* the integer n
Num(n) == Finite(n < 0, IF n < 0 THEN 0 - n ELSE n, FALSE)

\* Number.isFinite(x)
isFinite(x) == x.kind = "finite"

\* Math.floor(x) of a finite x
MathFloor(x) ==
  IF x.neg THEN 0 - x.whole - (IF x.frac THEN 1 ELSE 0) ELSE x.whole

RECURSIVE Pow(_, _)
Pow(base, k) == IF k <= 0 THEN 1 ELSE base * Pow(base, k - 1)

\* s read as a natural number in the given base, its digits being the
\* characters of alphabet in order; 0 for ""
RECURSIVE RadixValue(_, _)
RadixValue(s, alphabet) ==
  IF s = "" THEN 0
  ELSE RadixValue(Take(s, Len(s) - 1), alphabet) * Len(alphabet)
       + (IndexOf(alphabet, At(s, Len(s))) - 1)

\* s is one or more characters, all of them in alphabet
IsDigitsOf(s, alphabet) ==
  s # "" /\ \A i \in 1..Len(s) : Includes(alphabet, At(s, i))

\* StrDecimalLiteral without its sign: digits "." digits, with a digit on
\* one side at least, then an optional exponent.  The value is the digits
\* with the point moved by the exponent.
DecimalMantissa(u) ==
  LET e == FirstOf(u, {"e", "E"}, 1) IN IF e = 0 THEN u ELSE Take(u, e - 1)

DecimalExponent(u) ==
  LET e == FirstOf(u, {"e", "E"}, 1) IN IF e = 0 THEN "0" ELSE From(u, e + 1)

IntegerDigits(mantissa) ==
  IF Includes(mantissa, ".") THEN Take(mantissa, IndexOf(mantissa, ".") - 1) ELSE mantissa

FractionDigits(mantissa) ==
  IF Includes(mantissa, ".") THEN From(mantissa, IndexOf(mantissa, ".") + 1) ELSE ""

IsSignedInteger(s) ==
  IsDigitsOf(IF At(s, 1) \in {"+", "-"} THEN From(s, 2) ELSE s, Digits)

SignedInteger(s) ==
  IF At(s, 1) = "-" THEN 0 - RadixValue(From(s, 2), Digits)
  ELSE IF At(s, 1) = "+" THEN RadixValue(From(s, 2), Digits)
  ELSE RadixValue(s, Digits)

IsDecimalLiteral(u) ==
  /\ IntegerDigits(DecimalMantissa(u)) \o FractionDigits(DecimalMantissa(u)) # ""
  /\ \A i \in 1..Len(IntegerDigits(DecimalMantissa(u))) :
       At(IntegerDigits(DecimalMantissa(u)), i) \in DigitChars
  /\ \A i \in 1..Len(FractionDigits(DecimalMantissa(u))) :
       At(FractionDigits(DecimalMantissa(u)), i) \in DigitChars
  /\ IsSignedInteger(DecimalExponent(u))

\* the value of the digits all with the decimal point after the first
\* point of them
PointAt(neg, all, point) ==
  Finite(neg,
         IF point <= 0 THEN 0
         ELSE IF point >= Len(all)
              THEN RadixValue(all, Digits) * Pow(10, point - Len(all))
              ELSE RadixValue(Take(all, point), Digits),
         \E i \in 1..Len(all) : i > point /\ At(all, i) # "0")

DecimalLiteral(neg, u) ==
  PointAt(neg,
          IntegerDigits(DecimalMantissa(u)) \o FractionDigits(DecimalMantissa(u)),
          Len(IntegerDigits(DecimalMantissa(u))) + SignedInteger(DecimalExponent(u)))

\* StringToNumber of a string without white space around it.  Exact for
\* the literals whose digits a double holds exactly; the literals drawn
\* below have at most four.
StringToNumber(t) ==
  IF t = "" THEN Num(0)
  ELSE IF t \in {"Infinity", "+Infinity"} THEN Infinity(FALSE)
  ELSE IF t = "-Infinity" THEN Infinity(TRUE)
  ELSE IF Take(t, 2) \in {"0x", "0X"}
  THEN IF IsDigitsOf(toLowerCase(From(t, 3)), "0123456789abcdef")
       THEN Num(RadixValue(toLowerCase(From(t, 3)), "0123456789abcdef")) ELSE NaN
  ELSE IF Take(t, 2) \in {"0o", "0O"}
  THEN IF IsDigitsOf(From(t, 3), "01234567")
       THEN Num(RadixValue(From(t, 3), "01234567")) ELSE NaN
  ELSE IF Take(t, 2) \in {"0b", "0B"}
  THEN IF IsDigitsOf(From(t, 3), "01")
       THEN Num(RadixValue(From(t, 3), "01")) ELSE NaN
  ELSE IF At(t, 1) \in {"+", "-"}
  THEN IF IsDecimalLiteral(From(t, 2))
       THEN DecimalLiteral(At(t, 1) = "-", From(t, 2)) ELSE NaN
  ELSE IF IsDecimalLiteral(t) THEN DecimalLiteral(FALSE, t) ELSE NaN

\* Number(rawValue)
Number(rawValue) ==
  CASE rawValue.type = "undefined" -> NaN
    [] rawValue.type = "null" -> Num(0)
    [] rawValue.type = "boolean" -> Num(IF rawValue.value THEN 1 ELSE 0)
    [] rawValue.type = "number" -> rawValue.value
    [] rawValue.type = "string" -> StringToNumber(trim(rawValue.text))

\* the tests with a lookback of zero minutes let through
ValidatedFromZero(numeric) ==
  IF ~isFinite(numeric) THEN [error |-> "number"]
  ELSE IF MathFloor(numeric) < 0 THEN [error |-> "min"]
  ELSE IF MathFloor(numeric) > MAX_LOOKBACK_MINUTES THEN [error |-> "max"]
  ELSE [minutes |-> MathFloor(numeric)]

\* the three tests of validateLookback on numeric = Number(rawValue)
Validated(numeric) ==
  IF ~isFinite(numeric) THEN [error |-> "number"]
  ELSE IF MathFloor(numeric) <= 0 THEN [error |-> "min"]
  ELSE IF MathFloor(numeric) > MAX_LOOKBACK_MINUTES THEN [error |-> "max"]
  ELSE [minutes |-> MathFloor(numeric)]

validateLookback(rawValue) == Validated(Number(rawValue))

(***************************************************************************)
(* telegram.ts extractLookback.  The source returns the bare number when   *)
(* the lookback is valid; here it stays in the record { minutes }, and     *)
(* `typeof result === "object" && "error" in result` is `"error" \in       *)
(* DOMAIN result`.                                                         *)
(***************************************************************************)
extractLookback(text) ==
  IF text = "" THEN [minutes |-> DEFAULT_LOOKBACK_MINUTES]
  ELSE IF Len(SplitSpaces(trim(text))) < 2 THEN [minutes |-> DEFAULT_LOOKBACK_MINUTES]
  ELSE validateLookback(StringValue(SplitSpaces(trim(text))[2]))

\* x ?? y
Coalesce(x, y) == IF x.type \in {"undefined", "null"} THEN y ELSE x

\* ctx.message.text of the /summarise commands and the value of the
\* "minutes" option of the Discord commands in the pending-callback model:
\* one that is accepted (the default) and, for each error, one that is refused
SummariseTexts == {"/summarise abc", "/summarise 0", "/summarise", "/summarise 481"}
MinutesOptions == {StringValue("abc"), NumberValue(Num(0)), Undefined, NumberValue(Num(481))}

(***************************************************************************)
(* Issuing a payment request                                               *)
(***************************************************************************)
\* the token is made and the payment message handed to the platform: the
\* command now waits for the platform's answer
IssuePaymentRequest(platform, chatId, token, lookbackMinutes) ==
  /\ issued' = Append(issued, [token |-> token, platform |-> platform,
                               encoded |-> encodeURIComponent(token)])
  /\ commands' = MapSet(commands, token,
                        [platform |-> platform, chatId |-> chatId,
                         lookbackMinutes |-> lookbackMinutes,
                         pc |-> "sending"])
  /\ UNCHANGED <<now, ticks, nextSweep, botToken, pendingDiscordCallbacks,
                 pendingTelegramCallbacks, published, deliveries, consumed>>
  /\ UNCHANGED <<storeVars, gateVars, fin, sc, flowVars>>

\* telegram.ts bot.command("summarise"), up to the await of ctx.reply, for a
\* lookback that passes: the token is made, the payment message handed to
\* Telegram.  The bot only runs when TELEGRAM_BOT_TOKEN is set.
TelegramSummariseCommand(chatId, text) ==
  /\ botToken
  /\ Len(issued) < MaxCommands
  /\ "minutes" \in DOMAIN extractLookback(text)
  /\ IssuePaymentRequest("telegram", chatId,
                         TelegramToken(chatId, now, FreshId(Len(issued) + 1)),
                         extractLookback(text).minutes)
  /\ UNCHANGED fn

\* index.ts handleDiscordInteraction, name === "summarise", up to the await of
\* the follow-up POST that carries the payment link, for a lookback that
\* passes.  interaction.token is made up by Discord, one per interaction.
DiscordSummariseCommand(chatId, value) ==
  /\ Len(issued) < MaxCommands
  /\ "minutes" \in DOMAIN validateLookback(Coalesce(value, NumberValue(Num(60))))
  /\ IssuePaymentRequest("discord", chatId, FreshId(Len(issued) + 1),
                         validateLookback(Coalesce(value, NumberValue(Num(60)))).minutes)
  /\ UNCHANGED fn

\* the reply of a command handler or of the /pay page, as the last call
Replied(name, input, result) ==
  fn' = [pc |-> "done", name |-> name, input |-> input, result |-> result]

\* nothing of the pending callbacks changes
NothingIssued ==
  /\ UNCHANGED <<clockVars, pendingVars>>
  /\ UNCHANGED <<storeVars, gateVars, fin, sc, flowVars>>

\* telegram.ts bot.command("summarise"), the whole handler up to the await
\* of the payment message: a lookback that fails is answered with the error
\* and the handler returns
TelegramSummarise(chatId, text) ==
  /\ botToken
  /\ IF "error" \in DOMAIN extractLookback(text)
     THEN /\ Replied("telegram", StringValue(text), extractLookback(text))
          /\ NothingIssued
     ELSE /\ Len(issued) < MaxCommands
          /\ Replied("telegram", StringValue(text), extractLookback(text))
          /\ IssuePaymentRequest("telegram", chatId,
                                 TelegramToken(chatId, now, FreshId(Len(issued) + 1)),
                                 extractLookback(text).minutes)

\* index.ts handleDiscordInteraction, name === "summarise", the whole handler
\* up to the await of the follow-up POST: a lookback that fails is answered
\* with an ephemeral error response
DiscordSummarise(chatId, value) ==
  IF "error" \in DOMAIN validateLookback(Coalesce(value, NumberValue(Num(60))))
  THEN /\ Replied("discord", value, validateLookback(Coalesce(value, NumberValue(Num(60)))))
       /\ NothingIssued
  ELSE /\ Len(issued) < MaxCommands
       /\ Replied("discord", value, validateLookback(Coalesce(value, NumberValue(Num(60)))))
       /\ IssuePaymentRequest("discord", chatId, FreshId(Len(issued) + 1),
                              validateLookback(Coalesce(value, NumberValue(Num(60)))).minutes)

\* index.ts GET /pay: 400 without the id or the lookback, 400 with a
\* lookback that fails, else the payment page for the validated minutes.
\* primaryId is "" when the parameter is absent or empty, lookbackMinutesParam
\* is null or a string.
PayPage(primaryId, lookbackMinutesParam) ==
  /\ fn' = [pc |-> "done", name |-> "pay", id |-> primaryId,
            input |-> lookbackMinutesParam,
            result |-> IF primaryId = "" \/ lookbackMinutesParam = Null
                       THEN [error |-> "Missing required parameters"]
                       ELSE validateLookback(lookbackMinutesParam)]
  /\ NothingIssued

\* The platform shows the payment message (the link with the token is now
\* visible to the user), or refuses it.
PaymentMessageSent(token, ok) ==
  /\ token \in DOMAIN commands
  /\ commands[token].pc = "sending"
  /\ IF ok
     THEN /\ commands' = [commands EXCEPT ![token].pc = "visible"]
          /\ published' = published \cup {token}
     ELSE \* !followupResponse.ok: return / ctx.reply throws: no entry
          /\ commands' = MapDelete(commands, token)
          /\ UNCHANGED published
  /\ UNCHANGED <<now, ticks, nextSweep, botToken, pendingDiscordCallbacks,
                 pendingTelegramCallbacks, issued, deliveries, consumed>>
  /\ UNCHANGED <<storeVars, gateVars, pipeVars>>

\* the callback data stored for a token
CallbackData(cmd, t) ==
  [chatId |-> cmd.chatId, lookbackMinutes |-> cmd.lookbackMinutes,
   expiresAt |-> t + PAYMENT_CALLBACK_EXPIRY_MS]

\* The await returns: pendingXCallbacks.set(token, {..., expiresAt})
RegisterPending(token) ==
  /\ token \in DOMAIN commands
  /\ commands[token].pc = "visible"
  /\ IF commands[token].platform = "discord"
     THEN /\ pendingDiscordCallbacks' =
               MapSet(pendingDiscordCallbacks, token, CallbackData(commands[token], now))
          /\ UNCHANGED pendingTelegramCallbacks
     ELSE /\ pendingTelegramCallbacks' =
               MapSet(pendingTelegramCallbacks, token, CallbackData(commands[token], now))
          /\ UNCHANGED pendingDiscordCallbacks
  /\ commands' = MapDelete(commands, token)
  /\ UNCHANGED <<now, ticks, nextSweep, botToken, issued, published,
                 deliveries, consumed>>
  /\ UNCHANGED <<storeVars, gateVars, pipeVars>>

(***************************************************************************)
(* The payment callbacks                                                   *)
(***************************************************************************)
\* the tokens a callback request may carry: none, a malformed escape, and
\* every issued token as it is and URL-encoded (the /pay page sends the
\* encoded form)
BodyTokens ==
  {"", "%zz"} \cup IssuedTokens \cup {issued[i].encoded : i \in DOMAIN issued}

\* a handler that leaves the entry in the map
KeepPending(map, key) == map

\* pendingXCallbacks.delete(decodedToken)
TakePending(map, key) == MapDelete(map, key)

NewDelivery(platform, key, data) ==
  [platform |-> platform, key |-> key, chatId |-> data.chatId,
   post |-> "inflight", race |-> "pending", retry |-> "none"]

\* what the handler does with the map and the answer it gives, as
\* [status, map, found]: 400 without a token, 500 when decodeURIComponent
\* throws (the outer catch), 404 when the map has no entry, otherwise the
\* entry is deleted at once
CallbackLookup(map, body) ==
  IF body = "" THEN [status |-> 400, map |-> map, found |-> FALSE, key |-> ""]
  ELSE IF DecodeThrows(body)
       THEN [status |-> 500, map |-> map, found |-> FALSE, key |-> ""]
  ELSE LET decodedToken == decodeURIComponent(body)
       IN IF decodedToken \notin DOMAIN map
          THEN [status |-> 404, map |-> map, found |-> FALSE, key |-> decodedToken]
          ELSE [status |-> 200, map |-> TakePending(map, decodedToken),
                found |-> TRUE, key |-> decodedToken]

\* what is recorded of the callbacks that carried this token
Consumed(c, platform, key) ==
  IF key \in DOMAIN c[platform] THEN c[platform][key]
  ELSE [found |-> 0, replays |-> {}]

\* the record after one more callback with this token, answered status
Record(c, platform, r, status) ==
  LET was == Consumed(c, platform, r.key)
  IN IF r.found \/ was.found > 0
     THEN [c EXCEPT ![platform] =
             MapSet(@, r.key,
                    [found |-> was.found + (IF r.found THEN 1 ELSE 0),
                     replays |-> IF was.found > 0
                                 THEN was.replays \cup {status}
                                 ELSE was.replays])]
     ELSE c

\* index.ts handleDiscordCallback, up to the first await of the posting
handleDiscordCallback(body) ==
  /\ LET r == CallbackLookup(pendingDiscordCallbacks, body)
     IN /\ pendingDiscordCallbacks' = r.map
        /\ deliveries' =
             IF r.found
             THEN Append(deliveries,
                         NewDelivery("discord", r.key, pendingDiscordCallbacks[r.key]))
             ELSE deliveries
        /\ consumed' = Record(consumed, "discord", r, r.status)
  /\ UNCHANGED <<now, ticks, nextSweep, botToken, pendingTelegramCallbacks,
                 issued, commands, published>>
  /\ UNCHANGED <<storeVars, gateVars, pipeVars>>

\* index.ts handleTelegramCallback: as above, and 500 after the delete when
\* TELEGRAM_BOT_TOKEN is not set
handleTelegramCallback(body) ==
  /\ LET r == CallbackLookup(pendingTelegramCallbacks, body)
         posting == r.found /\ botToken
     IN /\ pendingTelegramCallbacks' = r.map
        /\ deliveries' =
             IF posting
             THEN Append(deliveries,
                         NewDelivery("telegram", r.key, pendingTelegramCallbacks[r.key]))
             ELSE deliveries
        /\ consumed' = Record(consumed, "telegram", r,
                              IF r.found /\ ~botToken THEN 500 ELSE r.status)
  /\ UNCHANGED <<now, ticks, nextSweep, botToken, pendingDiscordCallbacks,
                 issued, commands, published>>
  /\ UNCHANGED <<storeVars, gateVars, pipeVars>>

(***************************************************************************)
(* Posting the summary: Promise.race([POST, 5 s timeout]), then one retry  *)
(* 100 ms after a timeout or a thrown POST (index.ts 1112-1172, 1257-1321) *)
(***************************************************************************)
PostOutcomes == {"ok", "notok", "threw"}

\* The first POST ends: "ok" shows the summary in the chat, "notok" is a
\* refusal by the platform (the task returns), "threw" a network error (the
\* task rejects).  It decides the race only when the timeout has not.
PostCompletes(d, outcome) ==
  /\ d \in DOMAIN deliveries
  /\ deliveries[d].post = "inflight"
  /\ deliveries' =
       [deliveries EXCEPT
          ![d].post = outcome,
          ![d].race = IF @ # "pending" THEN @
                      ELSE IF outcome = "threw" THEN "rejected" ELSE "won",
          ![d].retry = IF deliveries[d].race = "pending" /\ outcome = "threw"
                       THEN "scheduled" ELSE @]
  /\ UNCHANGED <<now, ticks, nextSweep, botToken, pendingDiscordCallbacks,
                 pendingTelegramCallbacks, issued, commands, published, consumed>>
  /\ UNCHANGED <<storeVars, gateVars, pipeVars>>

\* setTimeout(() => reject(new Error("... API timeout")), 5000) wins the race:
\* the catch block schedules the retry; the first POST stays in flight
RaceTimeout(d) ==
  /\ d \in DOMAIN deliveries
  /\ deliveries[d].race = "pending"
  /\ deliveries' = [deliveries EXCEPT ![d].race = "timeout", ![d].retry = "scheduled"]
  /\ UNCHANGED <<now, ticks, nextSweep, botToken, pendingDiscordCallbacks,
                 pendingTelegramCallbacks, issued, commands, published, consumed>>
  /\ UNCHANGED <<storeVars, gateVars, pipeVars>>

\* the retry task: one more POST of the same content
RetryPost(d, outcome) ==
  /\ d \in DOMAIN deliveries
  /\ deliveries[d].retry = "scheduled"
  /\ deliveries' =
       [deliveries EXCEPT ![d].retry = outcome]
  /\ UNCHANGED <<now, ticks, nextSweep, botToken, pendingDiscordCallbacks,
                 pendingTelegramCallbacks, issued, commands, published, consumed>>
  /\ UNCHANGED <<storeVars, gateVars, pipeVars>>

(***************************************************************************)
(* The sweep and the clock                                                 *)
(***************************************************************************)
\* a pass that also deletes the entries expiring at this very instant
SweepMapInclusive(map, t) == [k \in {x \in DOMAIN map : ~(map[x].expiresAt <= t)} |-> map[k]]

\* one map's pass of the setInterval callback: delete when expiresAt < now
SweepMap(map, t) == [k \in {x \in DOMAIN map : ~(map[x].expiresAt < t)} |-> map[k]]

\* a sweep set up with setTimeout: it runs once, 30 minutes after the start
SweepOnce ==
  /\ now >= nextSweep
  /\ nextSweep = SWEEP_INTERVAL_MS
  /\ pendingDiscordCallbacks' = SweepMap(pendingDiscordCallbacks, now)
  /\ pendingTelegramCallbacks' = SweepMap(pendingTelegramCallbacks, now)
  /\ nextSweep' = nextSweep + SWEEP_INTERVAL_MS
  /\ UNCHANGED <<now, ticks, botToken, issued, commands, published,
                 deliveries, consumed>>
  /\ UNCHANGED <<storeVars, gateVars, pipeVars>>

\* index.ts 730-742, every 30 minutes
Sweep ==
  /\ now >= nextSweep
  /\ pendingDiscordCallbacks' = SweepMap(pendingDiscordCallbacks, now)
  /\ pendingTelegramCallbacks' = SweepMap(pendingTelegramCallbacks, now)
  /\ nextSweep' = nextSweep + SWEEP_INTERVAL_MS
  /\ UNCHANGED <<now, ticks, botToken, issued, commands, published,
                 deliveries, consumed>>
  /\ UNCHANGED <<storeVars, gateVars, pipeVars>>

TickSteps == {1, PAYMENT_CALLBACK_EXPIRY_MS}

\* time passes; the sweep is not left overdue by more than one step
Tick(d) ==
  /\ ticks < MaxTicks
  /\ now < nextSweep
  /\ now' = now + d
  /\ ticks' = ticks + 1
  /\ UNCHANGED <<nextSweep, botToken, pendingDiscordCallbacks,
                 pendingTelegramCallbacks, issued, commands, published,
                 deliveries, consumed>>
  /\ UNCHANGED <<storeVars, gateVars, pipeVars>>

\* Time passes by one sweep interval while an entry is pending.  The steps of
\* the clock taken while both maps are empty are left out: no entry is there
\* to expire.
TimePasses ==
  /\ DOMAIN pendingDiscordCallbacks \cup DOMAIN pendingTelegramCallbacks # {}
  /\ now < nextSweep
  /\ now' = now + SWEEP_INTERVAL_MS
  /\ UNCHANGED <<ticks, nextSweep, botToken, pendingDiscordCallbacks,
                 pendingTelegramCallbacks, issued, commands, published,
                 deliveries, consumed>>
  /\ UNCHANGED <<storeVars, gateVars, pipeVars>>

(***************************************************************************)
(* The Telegram message buffer (telegramStore, src/unnamed/part_005)       *)
(***************************************************************************)
MAX_MESSAGES_PER_CHAT == 1000
DAY_MS == 86400000

\* addTelegramMessage calls in one behaviour
MaxInserts == 2
\* messages a chat may already hold when the behaviour starts
Prefilled == 999

StoreChats == {7, 8}
NoInsert == [chatId |-> 0]

\* messageStore.get(chatId) ?? []
getTelegramMessages(store, chatId) ==
  IF chatId \in DOMAIN store THEN store[chatId] ELSE <<>>

\* a trim that drops the newest messages instead of the oldest
SpliceBack(recent) ==
  IF Len(recent) > MAX_MESSAGES_PER_CHAT
  THEN SubSeq(recent, 1, MAX_MESSAGES_PER_CHAT)
  ELSE recent

\* recent.splice(0, recent.length - MAX_MESSAGES_PER_CHAT)
SpliceFront(recent) ==
  IF Len(recent) > MAX_MESSAGES_PER_CHAT
  THEN SubSeq(recent, Len(recent) - MAX_MESSAGES_PER_CHAT + 1, Len(recent))
  ELSE recent

\* existing.filter((entry) => entry.timestampMs >= cutoff)
FilterRecent(existing, cutoff) ==
  SelectSeq(existing, LAMBDA entry : entry.timestampMs >= cutoff)

\* the store after addTelegramMessage(chatId, message) at time t
addTelegramMessage(store, chatId, message, t) ==
  LET existing == Append(getTelegramMessages(store, chatId), message)
      cutoff == t - DAY_MS
      recent == FilterRecent(existing, cutoff)
  IN MapSet(store, chatId, SpliceFront(recent))

\* getTelegramMessagesWithin(chatId, lookbackMinutes) at time t
getTelegramMessagesWithin(store, chatId, lookbackMinutes, t) ==
  LET cutoff == t - lookbackMinutes * 60 * 1000
  IN SelectSeq(getTelegramMessages(store, chatId),
               LAMBDA msg : msg.timestampMs >= cutoff)

\* a reaction update that drops the message it is about
updateDroppingMessage(store, chatId, messageId, reactionCount) ==
  IF chatId \notin DOMAIN store THEN store
  ELSE [store EXCEPT ![chatId] = SelectSeq(@, LAMBDA msg : msg.messageId # messageId)]

\* the store after updateTelegramMessageReactions: the first message with
\* that id, if any, gets the count
updateTelegramMessageReactions(store, chatId, messageId, reactionCount) ==
  IF chatId \notin DOMAIN store THEN store
  ELSE LET messages == store[chatId]
           hits == {i \in DOMAIN messages : messages[i].messageId = messageId}
       IN IF hits = {} THEN store
          ELSE LET first == CHOOSE i \in hits : \A j \in hits : i <= j
               IN [store EXCEPT ![chatId][first].reactionCount = reactionCount]

\* Date.now() when a behaviour of the buffer starts
StoreStart == 2 * DAY_MS

PrefilledBuffer ==
  [i \in 1..Prefilled |->
     [messageId |-> i, timestampMs |-> StoreStart, reactionCount |-> 0]]

StoreIdle ==
  /\ messageStore = EmptyMap
  /\ nextMessageId = 1
  /\ inserts = 0
  /\ lastInsert = NoInsert

\* the buffer is empty, or chat 7 already holds Prefilled messages that have
\* just arrived
StoreInit ==
  /\ \/ messageStore = EmptyMap /\ nextMessageId = 1
     \/ messageStore = MapSet(EmptyMap, 7, PrefilledBuffer)
        /\ nextMessageId = Prefilled + 1
  /\ inserts = 0
  /\ lastInsert = NoInsert

\* msg.date * 1000 of an arriving message: now, or late by a day and more
ArrivalTimes == {now, now - DAY_MS, now - DAY_MS - 1000}

AddMessage(chatId, timestampMs) ==
  /\ inserts < MaxInserts
  /\ LET message == [messageId |-> nextMessageId, timestampMs |-> timestampMs,
                     reactionCount |-> 0]
         after == addTelegramMessage(messageStore, chatId, message, now)
     IN /\ messageStore' = after
        /\ lastInsert' = [chatId |-> chatId, message |-> message, at |-> now,
                          before |-> messageStore, after |-> after]
  /\ nextMessageId' = nextMessageId + 1
  /\ inserts' = inserts + 1
  /\ UNCHANGED <<clockVars, pendingVars, gateVars, pipeVars>>

UpdateReactions(chatId, messageId, reactionCount) ==
  /\ messageStore' =
       updateTelegramMessageReactions(messageStore, chatId, messageId, reactionCount)
  /\ UNCHANGED <<nextMessageId, inserts, lastInsert>>
  /\ UNCHANGED <<clockVars, pendingVars, gateVars, pipeVars>>

StoreTick(d) ==
  /\ ticks < MaxTicks
  /\ now' = now + d
  /\ ticks' = ticks + 1
  /\ UNCHANGED <<storeVars, pendingVars, gateVars, pipeVars>>

\* reads and clears of the buffer in one behaviour
MaxReads == 1
MaxClears == 1
\* messages chat 7 holds when a behaviour of the store operations starts
Held == 2
HeldBuffer ==
  [i \in 1..Held |-> [messageId |-> i, timestampMs |-> StoreStart, reactionCount |-> 0]]

\* the store after clearTelegramMessages(chatId): messageStore.delete(chatId)
clearTelegramMessages(store, chatId) == MapDelete(store, chatId)

\* the calls of the reading and clearing operations made so far, and what the
\* last read returned
StoreOps == [reads |-> 0, clears |-> 0, result |-> <<>>]

\* getTelegramMessagesWithin(chatId, lookbackMinutes) is called
ReadMessages(chatId, lookbackMinutes) ==
  /\ ops # NoCall
  /\ ops.reads < MaxReads
  /\ ops' = [ops EXCEPT !.reads = @ + 1,
                        !.result = getTelegramMessagesWithin(messageStore, chatId, lookbackMinutes, now)]
  /\ UNCHANGED <<storeVars, clockVars, pendingVars, gateVars, fin, sc, fetch, req, fn>>

\* clearTelegramMessages(chatId) is called
ClearMessages(chatId) ==
  /\ ops # NoCall
  /\ ops.clears < MaxClears
  /\ messageStore' = clearTelegramMessages(messageStore, chatId)
  /\ ops' = [ops EXCEPT !.clears = @ + 1]
  /\ UNCHANGED <<nextMessageId, inserts, lastInsert>>
  /\ UNCHANGED <<clockVars, pendingVars, gateVars, fin, sc, fetch, req, fn>>

(***************************************************************************)
(* The payment gate of the Bun.serve fetch handler (index.ts 2205-2422)    *)
(***************************************************************************)
\* requests in one behaviour
MaxRequests == 2

\* url.pathname of a request, as the URL parser gives it
Pathnames ==
  {"/entrypoints/summarise%20chat/invoke",
   "/entrypoints/summarise%20telegram%20chat/invoke",
   "/entrypoints/summarise%20chat/stream",
   "/entrypoints/echo/invoke",
   "/.well-known/agent.json"}

\* the X-PAYMENT header: absent (null), empty, not decodable by
\* exact.evm.decodePayment, decodable but matching no payment requirement,
\* decodable and matching
PaymentHeaders == {"null", "", "garbage", "unmatched", "matched"}

isEntrypointInvoke(pathname) ==
  Includes(pathname, "/entrypoints/") /\ Includes(pathname, "/invoke")

isSummariseEndpoint(pathname) ==
  \/ Includes(pathname, "summarise%20chat")
  \/ Includes(pathname, "summarise chat")
  \/ Includes(pathname, "summarise%20telegram%20chat")
  \/ Includes(pathname, "summarise telegram chat")

\* the request is one the gate answers itself or lets through after payment
IsGated(pathname) == isEntrypointInvoke(pathname) /\ isSummariseEndpoint(pathname)

\* !hasPaymentHeader
HeaderMissing(header) == header \in {"null", ""}
\* exact.evm.decodePayment(header) throws
DecodeFails(header) == header = "garbage"
\* findMatchingPaymentRequirements(...) is undefined
NoMatch(header) == header = "unmatched"

\* the checks made before the first await: the 402 answers given at once
GateEntry(pathname, header) ==
  IF ~IsGated(pathname) THEN "app"
  ELSE IF HeaderMissing(header) THEN "402"
  ELSE IF DecodeFails(header) THEN "402"
  ELSE IF NoMatch(header) THEN "402"
  ELSE "verify"

NewRequest(pathname, header) ==
  LET entry == GateEntry(pathname, header)
  IN [pathname |-> pathname, header |-> header,
      pc |-> IF entry = "402" THEN "done" ELSE entry,
      verify |-> "none", settle |-> "none",
      handlerCalls |-> IF entry = "app" THEN 1 ELSE 0,
      settleCalls |-> 0,
      status |-> IF entry = "402" THEN 402 ELSE 0,
      appStatus |-> 0,
      paymentResponse |-> FALSE]

GateIdle == requests = <<>>
GateInit == requests = <<>>

\* a request arrives and runs to its first await
GateRequest(pathname, header) ==
  /\ Len(requests) < MaxRequests
  /\ requests' = Append(requests, NewRequest(pathname, header))
  /\ UNCHANGED <<clockVars, pendingVars, storeVars, pipeVars>>

VerifyOutcomes == {"throws", "invalid", "valid"}

\* a gate that calls the handler whatever verify says
AfterVerifyLax(r, outcome) ==
  [r EXCEPT !.verify = outcome, !.pc = "app", !.handlerCalls = @ + 1]

\* what the request does when facilitatorClient.verify ends
AfterVerify(r, outcome) ==
  IF outcome = "valid"
  THEN [r EXCEPT !.verify = outcome, !.pc = "app", !.handlerCalls = @ + 1]
  ELSE [r EXCEPT !.verify = outcome, !.pc = "done", !.status = 402]

GateVerify(i, outcome) ==
  /\ i \in DOMAIN requests
  /\ requests[i].pc = "verify"
  /\ requests' = [requests EXCEPT ![i] = AfterVerify(requests[i], outcome)]
  /\ UNCHANGED <<clockVars, pendingVars, storeVars, pipeVars>>

\* appResponse.status: a success, the two sides of the test against 400, and
\* a failure of the handler
AppStatuses == {200, 399, 400, 500}

\* what the request does when app.fetch(req) ends: an ungated request and a
\* failed handler give the app's response back, otherwise settle is called
AfterApp(r, appStatus) ==
  IF ~IsGated(r.pathname) \/ appStatus >= 400
  THEN [r EXCEPT !.pc = "done", !.status = appStatus, !.appStatus = appStatus]
  ELSE [r EXCEPT !.pc = "settle", !.status = appStatus, !.appStatus = appStatus,
                 !.settleCalls = @ + 1]

GateApp(i, appStatus) ==
  /\ i \in DOMAIN requests
  /\ requests[i].pc = "app"
  /\ requests' = [requests EXCEPT ![i] = AfterApp(requests[i], appStatus)]
  /\ UNCHANGED <<clockVars, pendingVars, storeVars, pipeVars>>

SettleOutcomes == {"throws", "failed", "success"}

\* a gate that answers 502 when the settlement did not succeed
AfterSettleStrict(r, outcome) ==
  [r EXCEPT !.settle = outcome, !.pc = "done",
            !.status = IF outcome = "success" THEN @ ELSE 502,
            !.paymentResponse = (outcome = "success")]

\* facilitatorClient.settle ends: the app's response goes out, with the
\* X-PAYMENT-RESPONSE header when the settlement succeeded
AfterSettle(r, outcome) ==
  [r EXCEPT !.settle = outcome, !.pc = "done",
            !.paymentResponse = (outcome = "success")]

GateSettle(i, outcome) ==
  /\ i \in DOMAIN requests
  /\ requests[i].pc = "settle"
  /\ requests' = [requests EXCEPT ![i] = AfterSettle(requests[i], outcome)]
  /\ UNCHANGED <<clockVars, pendingVars, storeVars, pipeVars>>

(***************************************************************************)
(* The summary pipeline (agent.ts 1197-1960)                               *)
(***************************************************************************)
FlowIdle == fetch = NoCall /\ req = NoCall /\ ops = NoCall
PipeIdle == fin = NoCall /\ sc = NoCall /\ FlowIdle /\ fn = NoCall

\* parts.join(sep)
RECURSIVE Join(_, _)
Join(parts, sep) ==
  IF parts = <<>> THEN ""
  ELSE IF Len(parts) = 1 THEN parts[1]
  ELSE parts[1] \o sep \o Join(Tail(parts), sep)

\* array.filter(Boolean) on strings
NonEmpty(parts) == SelectSeq(parts, LAMBDA x : x # "")

\* array.map((x) => x.trim())
TrimAll(parts) == [i \in DOMAIN parts |-> trim(parts[i])]

\* \b before position i of s (between s[i-1] and s[i])
Boundary(s, i) == (At(s, i - 1) \in WordChars) # (At(s, i) \in WordChars)

\* /\bw\b/ matches s at position i; s and w in the same letter case
WordAt(s, w, i) == MatchAt(s, w, i) /\ Boundary(s, i) /\ Boundary(s, i + Len(w))

\* /\b(w1|w2|...)\b/.test(s)
HasWord(s, words) == \E w \in words : \E i \in 1..Len(s) : WordAt(s, w, i)

\* /\bw/.test(s) and /w\b/.test(s)
HasWordStart(s, w) == \E i \in 1..Len(s) : MatchAt(s, w, i) /\ Boundary(s, i)
HasWordEnd(s, w) == \E i \in 1..Len(s) : MatchAt(s, w, i) /\ Boundary(s, i + Len(w))

\* /[.!?]$/.test(s) and /[??]$/.test(s) (the full-width question mark is
\* not in the alphabet of the model)
EndsWithStop(s) == At(s, Len(s)) \in {".", "!", "?"}
EndsWithQuestionMark(s) == At(s, Len(s)) = "?"

\* ---- agent.ts 1933-1961
ensurePeriod(sentence) ==
  LET trimmed == trim(sentence)
  IN IF trimmed = "" THEN trimmed
     ELSE IF EndsWithStop(trimmed) THEN trimmed ELSE trimmed \o "."

capitalizeFirst(text) == IF text = "" THEN text ELSE UpperChar(Head(text)) \o Tail(text)

lowercaseFirst(text) == IF text = "" THEN text ELSE LowerChar(Head(text)) \o Tail(text)

capitalizeWords(text) ==
  LET parts == NonEmpty(SplitSpaces(text))
  IN Join([i \in DOMAIN parts |-> capitalizeFirst(parts[i])], " ")

\* name.toLowerCase().replace(/^lord\s+/, "").trim()
normalizeName(name) ==
  LET lower == toLowerCase(name)
      rest == From(lower, 5)
  IN IF StartsWith(lower, "lord") /\ Run(rest, SpaceChars) > 0
     THEN trim(trimStart(rest))
     ELSE trim(lower)

\* value.toLowerCase().replace(/[^a-z0-9\s]/g, "").trim()
KeepOnly(s, class) ==
  Concat([i \in 1..Len(s) |-> IF At(s, i) \in class THEN At(s, i) ELSE ""], 1, Len(s))

normalizeForMatch(value) ==
  trim(KeepOnly(toLowerCase(value), LowerChars \cup DigitChars \cup SpaceChars))

isSameName(a, b) == normalizeName(a) = normalizeName(b)

\* ---- agent.ts 1398-1449
\* the action words without "must"
ActionWordsWithoutMust ==
  {"action item", "todo", "need to", "should", "task", "follow up", "deadline",
   "due"}

\* /\b(action item|todo|need to|must|should|task|follow up|deadline|due)\b/i
ActionWords ==
  {"action item", "todo", "need to", "must", "should", "task", "follow up",
   "deadline", "due"}
LaughWords == {"lol", "haha", "hehe", "lmao", "rofl", "omg"}

\* /\bw1|w2|...|wn\b/i.test(text): the \b binds to the first and the last
\* alternative only
HasLooseWord(lower, first, middle, last) ==
  \/ HasWordStart(lower, first)
  \/ \E w \in middle : Includes(lower, w)
  \/ HasWordEnd(lower, last)

\* /\b\d+[smhdw]?\b/.test(text)
HasNumber(text) ==
  \E i \in 1..Len(text) :
    /\ Boundary(text, i)
    /\ LET n == Run(From(text, i), DigitChars)
       IN /\ n > 0
          /\ \/ Boundary(text, i + n)
             \/ At(text, i + n) \in {"s", "m", "h", "d", "w"}
                /\ Boundary(text, i + n + 1)

\* /\b\d{1,2}:\d{2}\b/.test(text)
HasClockTime(text) ==
  \E i \in 1..Len(text) : \E n \in {1, 2} :
    /\ Boundary(text, i)
    /\ \A k \in 0..(n + 2) : k # n => At(text, i + k) \in DigitChars
    /\ At(text, i + n) = ":"
    /\ Boundary(text, i + n + 3)

\* /[A-Za-z].*[A-Za-z].*[A-Za-z]/.test(text): three letters on one line
HasThreeLetters(text) ==
  \E i \in 1..Len(text) : \E j \in (i + 1)..Len(text) : \E k \in (j + 1)..Len(text) :
    /\ At(text, i) \in LetterChars
    /\ At(text, j) \in LetterChars
    /\ At(text, k) \in LetterChars
    /\ \A m \in i..k : At(text, m) \notin {"\n", "\r"}

\* the characters of the model's alphabet with the Unicode Emoji property
EmojiChars == DigitChars \cup {"#", "*", EMOJI}

\* /^\p{Emoji}+$/u.test(text)
IsEmojiOnly(text) == text # "" /\ Run(text, EmojiChars) = Len(text)

\* /^[A-Za-z]+\b/.test(text) && !/\s/.test(text) && text.length <= 6
IsShortWord(text) ==
  /\ LET n == Run(text, LetterChars) IN n > 0 /\ Boundary(text, n + 1)
  /\ FirstOf(text, SpaceChars, 1) = 0
  /\ Len(text) <= 6

\* bullet.replace(/^•\s*/, "").trim()
BulletText(bullet) ==
  trim(IF StartsWith(bullet, BULLET) THEN trimStart(Tail(bullet)) ELSE bullet)

\* the score of the text of a bullet; lower is text.toLowerCase()
ScoreText(text, lower) ==
  IF text = "" THEN 0 - 5
     ELSE (IF Len(text) < 20 THEN 0 - 3 ELSE 0)
        + (IF Len(text) > 120 THEN 0 - 1 ELSE 0)
        + (IF HasWord(lower, ActionWords) THEN 4 ELSE 0)
        + (IF HasLooseWord(lower, "plan",
                           {"progress", "status", "update", "launch", "deploy",
                            "issue", "fix", "bug"}, "release")
           THEN 3 ELSE 0)
        + (IF HasLooseWord(lower, "confirm", {"decided", "agreed", "resolved"},
                           "concluded")
           THEN 3 ELSE 0)
        + (IF HasLooseWord(lower, "question", {"asked", "whether", "how", "when"},
                           "what")
           THEN 1 ELSE 0)
        + (IF HasNumber(text) \/ HasClockTime(text) THEN 1 ELSE 0)
        + (IF HasThreeLetters(text) THEN 1 ELSE 0)
        + (IF IsEmojiOnly(text) THEN 0 - 5 ELSE 0)
        + (IF IsShortWord(text) THEN 0 - 4 ELSE 0)
        + (IF HasWord(lower, LaughWords) THEN 0 - 4 ELSE 0)
        + (IF Len(SplitSpaces(text)) <= 3 THEN 0 - 2 ELSE 0)

scoreBullet(bullet) == ScoreText(BulletText(bullet), toLowerCase(BulletText(bullet)))

\* ---- agent.ts 1374-1396
\* a reduce that takes the later bullet on a tie: the last bullet with the
\* highest score
BestBulletLast(bullets) ==
  LET best == CHOOSE i \in DOMAIN bullets :
                /\ \A j \in DOMAIN bullets : scoreBullet(bullets[j]) <= scoreBullet(bullets[i])
                /\ \A j \in (i + 1)..Len(bullets) : scoreBullet(bullets[j]) < scoreBullet(bullets[i])
  IN bullets[best]

\* scored.reduce((prev, current) => current.score > prev.score ? current : prev):
\* the first bullet with the highest score
BestBullet(bullets) ==
  LET best == CHOOSE i \in DOMAIN bullets :
                /\ \A j \in DOMAIN bullets : scoreBullet(bullets[j]) <= scoreBullet(bullets[i])
                /\ \A j \in 1..(i - 1) : scoreBullet(bullets[j]) < scoreBullet(bullets[i])
  IN bullets[best]

filterAndRankBullets(bullets) ==
  LET retained == SelectSeq(bullets, LAMBDA b : scoreBullet(b) >= 0)
  IN IF retained # <<>> THEN retained
     ELSE IF bullets # <<>> THEN <<BestBullet(bullets)>>
     ELSE <<>>

\* ---- agent.ts 1585-1595
DiscourseMarkers ==
  {"well", "ok", "okay", "oh", "anyway", "so", "hey", "hmm", "hm", "um", "uh",
   "alright", "right", "ah"}
MarkerSeparators == SpaceChars \cup {",", ";", "-"}

\* the length of the match of DISCOURSE_MARKER_REGEX at the start, 0 for none
MarkerLength(working) ==
  LET lower == toLowerCase(working)
      hits == {m \in DiscourseMarkers :
                 StartsWith(lower, m) /\ At(lower, Len(m) + 1) \in MarkerSeparators}
  IN IF hits = {} THEN 0
     ELSE LET m == CHOOSE m \in hits : TRUE
          IN Len(m) + Run(From(working, Len(m) + 1), MarkerSeparators)

RECURSIVE StripMarkers(_)
StripMarkers(working) ==
  IF MarkerLength(working) > 0
  THEN StripMarkers(trim(From(working, MarkerLength(working) + 1)))
  ELSE working

\* working.replace(/^(?:never\s?mind)[\s,;-]+/i, "")
StripNeverMind(working) ==
  LET lower == toLowerCase(working)
      gap == IF At(lower, 6) \in SpaceChars THEN 1 ELSE 0
      n == 5 + gap + 4
  IN IF /\ StartsWith(lower, "never")
        /\ MatchAt(lower, "mind", 6 + gap)
        /\ At(lower, n + 1) \in MarkerSeparators
     THEN From(working, n + 1 + Run(From(working, n + 1), MarkerSeparators))
     ELSE working

stripDiscourseMarkers(text) == trim(StripNeverMind(StripMarkers(trim(text))))

\* ---- agent.ts 1597-1620
\* working.replace(/\bw\b/g, replacement); cmp is working in the letter
\* case the pattern is compared in. The replacement stands where a match
\* starts and the other characters of the match go (no two matches of one
\* of the words replaced here overlap)
ReplaceWordIn(working, cmp, w, replacement) ==
  Concat([i \in 1..Len(working) |->
            IF WordAt(cmp, w, i) THEN replacement
            ELSE IF \E j \in (i - Len(w) + 1)..(i - 1) : WordAt(cmp, w, j) THEN ""
            ELSE At(working, i)], 1, Len(working))

ReplaceWord(working, w, replacement) ==
  ReplaceWordIn(working, toLowerCase(working), w, replacement)

ReplaceWordExact(working, w, replacement) ==
  ReplaceWordIn(working, working, w, replacement)

\* the length of the match of /\bi\s+am\b/i at position i, 0 for none
IAmLength(lower, i) ==
  LET gap == Run(From(lower, i + 1), SpaceChars)
  IN IF /\ Boundary(lower, i) /\ At(lower, i) = "i" /\ gap > 0
        /\ MatchAt(lower, "am", i + 1 + gap)
        /\ Boundary(lower, i + 3 + gap)
     THEN 3 + gap ELSE 0

\* working.replace(/\bi\s+am\b/gi, replacement)
ReplaceIAm(working, replacement) ==
  LET lower == toLowerCase(working)
  IN Concat([i \in 1..Len(working) |->
               IF IAmLength(lower, i) > 0 THEN replacement
               ELSE IF \E j \in 1..(i - 1) : IAmLength(lower, j) > i - j THEN ""
               ELSE At(working, i)], 1, Len(working))

\* the replacements, speakerName being capitalizeWords(speaker)
NeutralizeWith(text, speakerName) ==
  LET w1 == ReplaceWord(text, "i'm", speakerName \o " is")
      w2 == ReplaceIAm(w1, speakerName \o " is")
      w3 == ReplaceWord(w2, "i've", speakerName \o " has")
      w4 == ReplaceWord(w3, "i'll", speakerName \o " will")
      w5 == ReplaceWord(w4, "i'd", speakerName \o " would")
      w6 == ReplaceWordExact(w5, "I", speakerName)
      w7 == ReplaceWord(w6, "me", "them")
      w8 == ReplaceWord(w7, "myself", "themself")
      w9 == ReplaceWord(w8, "my", "their")
  IN ReplaceWord(w9, "mine", "theirs")

neutralizeFirstPersonPronouns(text, speaker) ==
  NeutralizeWith(text, capitalizeWords(speaker))

\* ---- agent.ts 1479-1480, 1554-1555
DashChars == {"-", EMDASH}

\* the first character after the whitespace that starts at i, and the last
\* one before the whitespace that ends at i
AfterSpaces(s, i) == At(s, i + Run(From(s, i), SpaceChars))
BeforeSpaces(s, i) == At(s, i - RunBack(Take(s, i), SpaceChars))

\* clause.replace(/\s*[dash]\s*/g, " "): a space for each dash, nothing for
\* the whitespace around it
ReplaceDashes(clause) ==
  Concat([i \in 1..Len(clause) |->
            IF At(clause, i) \in DashChars THEN " "
            ELSE IF /\ At(clause, i) \in SpaceChars
                    /\ \/ AfterSpaces(clause, i) \in DashChars
                       \/ BeforeSpaces(clause, i) \in DashChars
                 THEN ""
            ELSE At(clause, i)], 1, Len(clause))

\* clause.replace(/\s+,/g, ",")
TightenCommas(clause) ==
  Concat([i \in 1..Len(clause) |->
            IF At(clause, i) \in SpaceChars /\ AfterSpaces(clause, i) = ","
            THEN "" ELSE At(clause, i)], 1, Len(clause))

\* ---- agent.ts 1622-1661
COMMON_LOWER_WORDS ==
  {"the", "this", "that", "there", "then", "they", "these", "those", "here",
   "good", "great", "well", "okay", "anyway", "however", "also", "maybe",
   "possibly", "never", "absentees"}

\* [A-Za-z0-9'()-] and the backquote, which a TLA+ string cannot hold
FirstWordChars == LetterChars \cup DigitChars \cup {"'", "(", ")", "-"}

isLikelyProperNoun(word) ==
  /\ word # ""
  /\ Head(word) \in UpperChars
  /\ Run(word, FirstWordChars) = Len(word)
  /\ toLowerCase(word) \notin COMMON_LOWER_WORDS

\* ---- agent.ts 1689-1701
StopChars == {".", "!", "?"}

\* trimmed.match(/[^.!?]+[.!?]?/g), an empty sequence for null
RECURSIVE MatchSentences(_)
MatchSentences(text) ==
  IF text = "" THEN <<>>
  ELSE IF Head(text) \in StopChars THEN MatchSentences(Tail(text))
  ELSE LET i == FirstOf(text, StopChars, 1)
       IN IF i = 0 THEN <<text>>
          ELSE <<Take(text, i)>> \o MatchSentences(From(text, i + 1))

splitIntoSentences(text) ==
  LET trimmed == trim(text)
      sentences == MatchSentences(trimmed)
  IN IF trimmed = "" THEN <<>>
     ELSE IF sentences # <<>> THEN NonEmpty(TrimAll(sentences))
     ELSE <<trimmed>>

\* ---- agent.ts 1663-1687
\* the statement relayed, sentences being splitIntoSentences(clause)
RelayedSentences(speaker, sentences) ==
  LET firstSentence == trim(StripEnd(sentences[1], StopChars))
      rewritten == ensurePeriod(speaker \o " relayed that " \o firstSentence)
      rest == Tail(sentences)
      tail == [i \in DOMAIN rest |-> ensurePeriod(capitalizeFirst(trim(rest[i])))]
      tailText == Join(NonEmpty(tail), " ")
  IN IF sentences = <<>> THEN ensurePeriod(speaker \o " shared an update.")
     ELSE IF firstSentence = "" THEN ensurePeriod(speaker \o " shared an update.")
     ELSE IF Len(sentences) > 1 /\ tailText # ""
          THEN trim(rewritten \o " " \o tailText)
     ELSE rewritten

rewriteThirdPartyStatement(speaker, clause) ==
  RelayedSentences(speaker, splitIntoSentences(clause))

\* ---- agent.ts 1540-1583
\* the length of the match of /^([A-Za-z0-9'()-]+)\b/, 0 for none
FirstWordLength(clause) ==
  LET n == Run(clause, FirstWordChars)
      ends == {k \in 1..n : Boundary(clause, k + 1)}
  IN IF ends = {} THEN 0 ELSE CHOOSE k \in ends : \A j \in ends : j <= k

\* the sentence for the clause left after the pronouns and dashes are replaced
StatementSentence(speaker, clause, speakerSet) ==
  LET firstWord == Take(clause, FirstWordLength(clause))
  IN IF clause = "" THEN speaker \o " shared an update."
     ELSE IF At(clause, 1) \in {"i", "I"} /\ Boundary(clause, 2)
          THEN ensurePeriod(capitalizeFirst(speaker \o From(clause, 2)))
     ELSE IF /\ firstWord # ""
             /\ isLikelyProperNoun(firstWord)
             /\ ~isSameName(firstWord, speaker)
          THEN rewriteThirdPartyStatement(speaker, clause)
     ELSE IF /\ firstWord # ""
             /\ toLowerCase(firstWord) # toLowerCase(speaker)
             /\ normalizeName(firstWord) \in speakerSet
          THEN ensurePeriod(capitalizeFirst(clause))
     ELSE ensurePeriod(speaker \o " " \o lowercaseFirst(clause))

rewriteStatementBullet(speaker, clauseSource, speakerSet) ==
  LET stripped == stripDiscourseMarkers(trim(clauseSource))
  IN IF stripped = "" THEN speaker \o " shared an update."
     ELSE StatementSentence(
            speaker,
            TightenCommas(ReplaceDashes(neutralizeFirstPersonPronouns(stripped, speaker))),
            speakerSet)

\* ---- agent.ts 1498-1512
buildSentence(statement) ==
  LET cleaned == trim(CollapseSpaces(statement))
      sentence == capitalizeFirst(cleaned)
  IN IF cleaned = "" THEN ""
     ELSE IF EndsWithQuestionMark(cleaned)
          THEN capitalizeFirst(trim(StripEnd(cleaned, {"?"}))) \o "?"
     ELSE sentence \o (IF EndsWithStop(sentence) THEN "" ELSE ".")

\* ---- agent.ts 1703-1724
NameChars == LetterChars \cup DigitChars \cup {"'"}

\* /^[A-Z][A-Za-z0-9']*$/i.test(word)
IsNameWord(word) ==
  word # "" /\ Head(word) \in LetterChars /\ Run(word, NameChars) = Len(word)

\* the text after a comma is (?:lord\s+)?NAME(?:\s+NAME)* up to the end
IsTargetSuffix(suffix) ==
  LET words == SplitSpaces(trimStart(suffix))
  IN \A i \in DOMAIN words : IsNameWord(words[i])

\* the position of the match of the comma pattern, 0 for no match
CommaMatchIndex(working) ==
  LET hits == {i \in 1..Len(working) :
                 At(working, i) = "," /\ IsTargetSuffix(From(working, i + 1))}
  IN IF hits = {} THEN 0 ELSE CHOOSE i \in hits : \A j \in hits : i <= j

\* the group of the comma pattern: the names without a leading "lord"
TargetGroup(suffix) ==
  LET t == trimStart(suffix)
      rest == From(t, 5)
  IN IF /\ StartsWith(toLowerCase(t), "lord")
        /\ Run(rest, SpaceChars) > 0
        /\ trimStart(rest) # ""
     THEN trimStart(rest) ELSE t

\* the parts of the trimmed question, index being the position of the
\* match of the comma pattern
ParsedAt(trimmed, index) ==
  LET working == IF index > 0 THEN trim(Take(trimmed, index - 1)) ELSE trimmed
      tokens == SplitSpaces(working)
  IN [questionWord |-> toLowerCase(tokens[1]),
      remainder |-> trim(From(working, Len(tokens[1]) + 1)),
      hasTarget |-> index > 0,
      targetName |-> IF index > 0 THEN trim(TargetGroup(From(trimmed, index + 1)))
                     ELSE "",
      original |-> trimmed]

parseQuestion(question) ==
  ParsedAt(trim(StripEnd(question, {"?"})),
           CommaMatchIndex(trim(StripEnd(question, {"?"}))))

\* ---- agent.ts 1860-1887
isYesNoQuestion(word) ==
  word \in {"have", "has", "had", "did", "do", "does", "is", "are", "was",
            "were", "will", "can", "could", "should", "would"}

normalizeHowTopic(remainder) ==
  LET t == trim(remainder)
      lower == toLowerCase(t)
      verbs == {v \in {"is", "are", "was", "were"} :
                  StartsWith(lower, v) /\ At(lower, Len(v) + 1) \in SpaceChars}
      topic == IF verbs = {} THEN t
               ELSE LET v == CHOOSE v \in verbs : TRUE
                    IN trimStart(From(t, Len(v) + 1))
  IN trim(IF StartsWith(toLowerCase(topic), "the") /\ Boundary(topic, 4)
          THEN topic ELSE "the " \o topic)

\* ---- agent.ts 1726-1755
buildAskedSentence(speaker, parsed) ==
  LET target == capitalizeWords(parsed.targetName)
      hasTarget == parsed.hasTarget /\ parsed.targetName # ""
      remainder == trim(parsed.remainder)
      lead == IF hasTarget THEN target \o " " ELSE ""
      questionWord == IF parsed.questionWord = "" THEN "what" ELSE parsed.questionWord
  IN IF remainder = "" THEN speaker \o " asked a question."
     ELSE IF isYesNoQuestion(parsed.questionWord)
          THEN ensurePeriod(speaker \o " asked " \o lead \o "whether "
                            \o lowercaseFirst(remainder))
     ELSE IF parsed.questionWord = "how"
          THEN ensurePeriod(speaker \o " asked " \o lead \o "about "
                            \o normalizeHowTopic(remainder))
     ELSE ensurePeriod(speaker \o " asked " \o lead \o questionWord \o " "
                       \o lowercaseFirst(remainder))

\* ---- agent.ts 1922-1931
PositiveCues ==
  {"yes", "yep", "yeah", "affirmative", "confirmed", "done", "already",
   "of course", "sure"}
NegativeCues ==
  {"no", "nope", "not yet", "haven't", "have not", "didn't", "cannot", "can't"}

classifyAnswerTone(content) ==
  LET text == toLowerCase(content)
  IN IF HasWord(text, PositiveCues) THEN "positive"
     ELSE IF HasWord(text, NegativeCues) THEN "negative"
     ELSE "null"

\* ---- agent.ts 1808-1858
buildYesNoAnswerStatement(questionWord, remainder, tone) ==
  LET clause == From(trim(remainder),
                     Run(trim(remainder), SpaceChars \cup {","}) + 1)
      isWe == StartsWith(toLowerCase(clause), "we") /\ At(clause, 3) \in SpaceChars
      rest == trim(From(clause, 4))
      positive == tone = "positive"
  IN lowercaseFirst(
       IF isWe
       THEN (CASE questionWord = "have" ->
                    IF positive THEN "we have " \o rest ELSE "we have not " \o rest
               [] questionWord = "did" ->
                    IF positive THEN "we " \o rest ELSE "we did not " \o rest
               [] questionWord = "are" ->
                    IF positive THEN "we are " \o rest ELSE "we are not " \o rest
               [] OTHER ->
                    IF positive THEN "we " \o rest ELSE "we do not " \o rest)
       ELSE IF positive THEN clause ELSE "not " \o clause)

buildAnswerStatement(parsed, tone) ==
  LET remainder == trim(parsed.remainder)
  IN IF remainder = "" THEN ""
     ELSE IF isYesNoQuestion(parsed.questionWord)
          THEN buildYesNoAnswerStatement(parsed.questionWord, remainder, tone)
     ELSE lowercaseFirst(remainder)

\* ---- agent.ts 1889-1912: the index of the entry, 0 for -1
findConversationEntryIndex(entries, speaker, statement) ==
  LET targetSpeaker == normalizeName(speaker)
      normalizedStatement == normalizeForMatch(statement)
      hits == {i \in DOMAIN entries :
                 /\ normalizeName(entries[i].speaker) = targetSpeaker
                 /\ LET normalizedContent == normalizeForMatch(entries[i].content)
                    IN /\ normalizedContent # ""
                       /\ \/ Includes(normalizedStatement, normalizedContent)
                          \/ Includes(normalizedContent, normalizedStatement)}
  IN IF hits = {} THEN 0 ELSE CHOOSE i \in hits : \A j \in hits : i <= j

\* ---- agent.ts 1757-1804
\* the entries after the question that the loop visits
AnswerWindow(questionIndex, entries) ==
  {i \in DOMAIN entries : i > questionIndex /\ i < questionIndex + 6}

\* the loop body accepts entry i as the answer
IsAnswer(parsed, entries, i) ==
  /\ entries[i].content # ""
  /\ (parsed.hasTarget /\ parsed.targetName # "") =>
       normalizeName(entries[i].speaker) = normalizeName(parsed.targetName)
  /\ classifyAnswerTone(entries[i].content) # "null"
  /\ buildAnswerStatement(parsed, classifyAnswerTone(entries[i].content)) # ""

\* the answer sentence, "" for null
\* the entries the loop accepts; none when the question is not found
Answers(parsed, conversationEntries, questionIndex) ==
  IF questionIndex = 0 THEN {}
  ELSE {i \in AnswerWindow(questionIndex, conversationEntries) :
          IsAnswer(parsed, conversationEntries, i)}

\* the sentence for the first entry accepted
AnswerFrom(parsed, conversationEntries, answers) ==
  IF answers = {} THEN ""
     ELSE LET i == CHOOSE i \in answers : \A j \in answers : i <= j
              tone == classifyAnswerTone(conversationEntries[i].content)
          IN ensurePeriod(capitalizeWords(conversationEntries[i].speaker) \o " "
                          \o (IF tone = "positive" THEN "confirmed" ELSE "reported")
                          \o " that " \o buildAnswerStatement(parsed, tone))

detectAnswerSentence(asker, parsed, conversationEntries) ==
  AnswerFrom(parsed, conversationEntries,
             Answers(parsed, conversationEntries,
                     findConversationEntryIndex(conversationEntries, asker,
                                                parsed.original)))

\* ---- agent.ts 1521-1538
\* if (answerSentence) return answerSentence; return buildAskedSentence(...)
AnswerOrAsked(speaker, parsed, answerSentence) ==
  IF answerSentence # "" THEN answerSentence
  ELSE buildAskedSentence(speaker, parsed)

\* the sentence for the parsed question
QuestionSentence(speaker, parsed, conversationEntries) ==
  AnswerOrAsked(speaker, parsed,
                detectAnswerSentence(speaker, parsed, conversationEntries))

rewriteQuestionBullet(speaker, rawQuestion, conversationEntries) ==
  QuestionSentence(speaker, parseQuestion(rawQuestion), conversationEntries)

\* ---- agent.ts 1451-1496
\* clauseSource.replace(/^[,:-]\s*/, "")
StripLeadingMark(clause) ==
  IF At(clause, 1) \in {",", ":", "-"} THEN trimStart(Tail(clause)) ELSE clause

\* the sentence, once sanitizedClause is computed
SentenceOfSanitized(normalizedSpeaker, clauseSource, sanitizedClause, entries, speakerSet) ==
  IF sanitizedClause = "" THEN normalizedSpeaker \o " shared an update."
     ELSE IF EndsWithQuestionMark(clauseSource)
          THEN rewriteQuestionBullet(normalizedSpeaker, sanitizedClause, entries)
     ELSE rewriteStatementBullet(normalizedSpeaker, clauseSource, speakerSet)

\* the sentence, once clauseSource is computed
SentenceOfClause(normalizedSpeaker, clauseSource, conversationEntries, speakerSet) ==
  IF clauseSource = "" THEN normalizedSpeaker \o " shared an update."
  ELSE SentenceOfSanitized(
         normalizedSpeaker, clauseSource,
         trim(TightenCommas(ReplaceDashes(
           neutralizeFirstPersonPronouns(stripDiscourseMarkers(clauseSource),
                                         normalizedSpeaker)))),
         conversationEntries, speakerSet)

\* the sentence, once normalizedSpeaker and cleaned are computed
SentenceOfCleaned(normalizedSpeaker, cleaned, conversationEntries, speakerSet) ==
  IF cleaned = "" THEN normalizedSpeaker \o " shared an update."
  ELSE SentenceOfClause(
         normalizedSpeaker,
         IF StartsWith(toLowerCase(cleaned), toLowerCase(normalizedSpeaker))
         THEN trim(StripLeadingMark(trim(From(cleaned, Len(normalizedSpeaker) + 1))))
         ELSE cleaned,
         conversationEntries, speakerSet)

buildSentenceWithSpeaker(speaker, statement, conversationEntries, speakerSet) ==
  SentenceOfCleaned(capitalizeWords(speaker), trim(CollapseSpaces(statement)),
                    conversationEntries, speakerSet)

\* ---- agent.ts 1325-1372
\* the characters a speaker label is made of: [A-Za-z0-9_'().\-\s] and the
\* backquote
LabelChars == WordChars \cup {"'", "(", ")", ".", "-"} \cup SpaceChars
LineTerminators == {"\n", "\r"}

\* text.match(/^([A-Za-z0-9_'().\-\s]{1,60}):\s*(.+)$/) as [matched, speaker,
\* statement]
ColonMatch(text) ==
  LET n == Run(text, LabelChars)
      tail == From(text, n + 2)
      rest == trimStart(tail)
      ok == /\ n >= 1 /\ n <= 60
            /\ At(text, n + 1) = ":"
            /\ tail # ""
            /\ FirstOf(tail, LineTerminators, 1) = 0
  IN [matched |-> ok,
      speaker |-> IF ok THEN trim(Take(text, n)) ELSE "",
      statement |-> IF ok THEN trim(IF rest = "" THEN tail ELSE rest) ELSE ""]

\* text.match(/^([A-Z][A-Za-z0-9']{2,})(?:\s+|,|--)(.+)$/) as [matched,
\* candidate, statement]
ImpliedMatch(text) ==
  LET n == IF At(text, 1) \in UpperChars THEN 1 + Run(Tail(text), NameChars) ELSE 0
      after == From(text, n + 1)
      gap == Run(after, SpaceChars)
      tail == IF gap > 0 THEN From(after, gap + 1)
              ELSE IF At(after, 1) = "," THEN Tail(after)
              ELSE IF StartsWith(after, "--") THEN From(after, 3)
              ELSE ""
      ok == n >= 3 /\ tail # "" /\ FirstOf(tail, LineTerminators, 1) = 0
  IN [matched |-> ok,
      candidate |-> IF ok THEN Take(text, n) ELSE "",
      statement |-> IF ok THEN trim(tail) ELSE ""]

\* the text of the line without its bullet marker
Unmarked(line) ==
  LET text == trim(line)
  IN IF StartsWith(text, BULLET) THEN trim(Tail(text))
     ELSE IF StartsWith(text, "-") THEN trim(From(text, Run(text, {"-"}) + 1))
     ELSE text

\* return body ? BULLET + " " + body : null
MarkedBody(body) == IF body # "" THEN BULLET \o " " \o body ELSE ""

\* the bullet for the speaker and the statement found in the line
BulletOfStatement(speaker, statement, conversationEntries, speakerSet) ==
  IF statement = "" THEN ""
  ELSE MarkedBody(IF speaker # ""
                  THEN buildSentenceWithSpeaker(speaker, statement,
                                                conversationEntries, speakerSet)
                  ELSE buildSentence(statement))

\* the bullet, once the two patterns are matched against the text
BulletOfMatches(text, colonMatch, impliedMatch, conversationEntries, speakerSet) ==
  LET implied == /\ ~colonMatch.matched
                 /\ impliedMatch.matched
                 /\ normalizeName(impliedMatch.candidate) \in speakerSet
      speaker == IF colonMatch.matched THEN colonMatch.speaker
                 ELSE IF implied THEN impliedMatch.candidate ELSE ""
      statement == IF colonMatch.matched THEN colonMatch.statement
                   ELSE IF implied THEN impliedMatch.statement ELSE text
  IN IF text = "" THEN ""
     ELSE BulletOfStatement(speaker, statement, conversationEntries, speakerSet)

transformLineToBullet(line, conversationEntries, speakerSet) ==
  BulletOfMatches(Unmarked(line), ColonMatch(Unmarked(line)),
                  ImpliedMatch(Unmarked(line)), conversationEntries, speakerSet)

\* ---- agent.ts 1197-1249
Hours == 0..23

timeBasedGreeting(hour) ==
  IF hour >= 5 /\ hour < 12 THEN "Good morning!"
  ELSE IF hour >= 12 /\ hour < 17 THEN "Good afternoon!"
  ELSE IF hour >= 17 /\ hour < 22 THEN "Good evening!"
  ELSE "Hello!"

\* a greeting test that knows the one-word greetings only
StartsWithGreetingWord(trimmed) ==
  \E g \in {"hello", "hi", "hey", "greetings"} : StartsWith(toLowerCase(trimmed), g)

\* greetingRegex.test(trimmed)
StartsWithGreeting(trimmed) ==
  LET lower == toLowerCase(trimmed)
      gap == Run(From(lower, 5), SpaceChars)
  IN \/ \E g \in {"hello", "hi", "hey", "greetings"} : StartsWith(lower, g)
     \/ /\ StartsWith(lower, "good") /\ gap > 0
        /\ \E p \in {"morning", "afternoon", "evening", "night"} :
             MatchAt(lower, p, 5 + gap)

\* lookbackMinutes 0 stands for a lookback that is not given, rangeLabel ""
\* for a label that is not given: the code treats them alike
WindowPhrase(lookbackMinutes, rangeLabel) ==
  IF lookbackMinutes > 0
  THEN "the last " \o NatToStr(lookbackMinutes) \o " minutes"
  ELSE IF trim(rangeLabel) # "" THEN trim(rangeLabel)
  ELSE "this period"

\* greeting assurance without the early return on an empty summary
ensureGreetingUnchecked(summary, lookbackMinutes, rangeLabel, hour) ==
  LET trimmed == trim(summary)
      intro == timeBasedGreeting(hour) \o " Here is what happened in "
               \o WindowPhrase(lookbackMinutes, rangeLabel) \o ":"
  IN IF StartsWithGreeting(trimmed) THEN trimmed
     ELSE IF StartsWith(trimmed, BULLET) \/ StartsWith(trimmed, "-")
          THEN intro \o "\n" \o trimmed
     ELSE trim(intro \o " " \o trimmed)

ensureGreeting(summary, lookbackMinutes, rangeLabel, hour) ==
  LET trimmed == trim(summary)
      intro == timeBasedGreeting(hour) \o " Here is what happened in "
               \o WindowPhrase(lookbackMinutes, rangeLabel) \o ":"
  IN IF trimmed = "" THEN trimmed
     ELSE IF StartsWithGreeting(trimmed) THEN trimmed
     ELSE IF StartsWith(trimmed, BULLET) \/ StartsWith(trimmed, "-")
          THEN intro \o "\n" \o trimmed
     ELSE trim(intro \o " " \o trimmed)

\* ---- agent.ts 1261-1323
\* bullet.split(/\s*•\s*/)
RECURSIVE SplitBullets(_)
SplitBullets(bullet) ==
  LET i == IndexOf(bullet, BULLET)
  IN IF i = 0 THEN <<bullet>>
     ELSE <<trimEnd(Take(bullet, i - 1))>> \o SplitBullets(trimStart(From(bullet, i + 1)))

\* the parts of a bullet, with the empty ones kept
ExpandBulletKeepEmpty(bullet) ==
  IF Includes(bullet, " " \o BULLET \o " ")
  THEN TrimAll(SplitBullets(bullet))
  ELSE <<bullet>>

\* what one filtered bullet adds to expandedBullets
ExpandBullet(bullet) ==
  IF Includes(bullet, " " \o BULLET \o " ")
  THEN NonEmpty(TrimAll(SplitBullets(bullet)))
  ELSE <<bullet>>

RECURSIVE Flatten(_)
Flatten(seqs) == IF seqs = <<>> THEN <<>> ELSE Head(seqs) \o Flatten(Tail(seqs))

ExpandBullets(bullets) == Flatten([i \in DOMAIN bullets |-> ExpandBullet(bullets[i])])

SpeakerSet(conversationEntries) ==
  {normalizeName(conversationEntries[i].speaker) : i \in DOMAIN conversationEntries}

\* the first line taken whole as the intro line
IntroAndBodyWhole(trimmed) ==
  LET rawLines == SplitLines(trimmed)
  IN [introLine |-> trim(rawLines[1]), bodyText |-> trim(Join(Tail(rawLines), "\n"))]

\* the intro line and the body text after the split at the first colon
IntroAndBody(trimmed) ==
  LET rawLines == SplitLines(trimmed)
      first == trim(rawLines[1])
      body == trim(Join(Tail(rawLines), "\n"))
      colon == IndexOf(first, ":")
      introSuffix == trim(From(first, colon + 1))
  IN IF colon = 0 THEN [introLine |-> first, bodyText |-> body]
     ELSE [introLine |-> trim(Take(first, colon)),
           bodyText |-> IF introSuffix = "" THEN body
                        ELSE IF body # "" THEN introSuffix \o "\n" \o body
                        ELSE introSuffix]

\* the transformed lines of the body that are not null
TransformLines(bulletSources, conversationEntries, speakerSet) ==
  NonEmpty([i \in DOMAIN bulletSources |->
              transformLineToBullet(bulletSources[i], conversationEntries,
                                    speakerSet)])

\* bullet.startsWith(BULLET) ? bullet : BULLET + " " + bullet, for every bullet
MarkBullets(expandedBullets) ==
  [i \in DOMAIN expandedBullets |->
     IF StartsWith(expandedBullets[i], BULLET) THEN expandedBullets[i]
     ELSE BULLET \o " " \o expandedBullets[i]]

\* the summary put together from the intro line and the filtered bullets
AssembleSummary(introLine, bodyText, filteredBullets) ==
  IF bodyText = "" THEN introLine
  ELSE IF filteredBullets = <<>> THEN trim(introLine \o "\n" \o bodyText)
  ELSE introLine \o "\n" \o Join(MarkBullets(ExpandBullets(filteredBullets)), "\n")

\* the summary, once the intro line and the body text are told apart
NormalizeParts(parts, conversationEntries) ==
  AssembleSummary(
    parts.introLine, parts.bodyText,
    filterAndRankBullets(
      TransformLines(NonEmpty(TrimAll(SplitLines(parts.bodyText))),
                     conversationEntries, SpeakerSet(conversationEntries))))

normalizeSummaryBullets(summary, conversationEntries) ==
  IF trim(summary) = "" THEN trim(summary)
  ELSE NormalizeParts(IntroAndBody(trim(summary)), conversationEntries)

\* ---- calls of filterAndRankBullets and of normalizeSummaryBullets
\* bullets in one call of filterAndRankBullets
MaxBullets == 3

\* bullets that score 1, 8, 0, -4, -4, -2 and -12
RankedBullets ==
  {BULLET \o " Alice will ship the report.",
   BULLET \o " The team must fix the login bug today.",
   BULLET \o " Must ship today.",
   BULLET \o " Hmm ok.",
   BULLET \o " Hmm no.",
   BULLET \o " Ok, thanks a lot.",
   BULLET \o " Lol."}

BulletLists == UNION {[1..n -> RankedBullets] : n \in 0..MaxBullets}

RankCalls ==
  {[name |-> "filterAndRankBullets", pc |-> "called", bullets |-> b, result |-> <<>>] :
     b \in BulletLists}

\* filterAndRankBullets(bullets) is called and returns
RankBullets ==
  /\ fn.pc = "called"
  /\ fn.name = "filterAndRankBullets"
  /\ fn' = [fn EXCEPT !.pc = "returned", !.result = filterAndRankBullets(fn.bullets)]
  /\ UNCHANGED <<fin, sc, flowVars>>
  /\ UNCHANGED <<clockVars, pendingVars, storeVars, gateVars>>

\* summaries of an intro line and a body: bodies of bullet markers only, from
\* which no bullet is extracted, and bodies with a line of text
MarkerBodies ==
  {BULLET, BULLET \o "\n-", BULLET \o "  \n  -", "--\n" \o BULLET,
   BULLET \o "\nlol", "Alice: I will ship the report\n-"}

NormalizeCalls ==
  {[name |-> "normalizeSummaryBullets", pc |-> "called",
    introLine |-> i, bodyText |-> b, summary |-> i \o "\n" \o b,
    bullets |-> <<>>, result |-> ""] :
     i \in {"Summary", "Recap:"}, b \in MarkerBodies}

\* normalizeSummaryBullets(summary, []) is called and returns; bullets are
\* the bullets it extracted from the body on the way
NormalizeBullets ==
  /\ fn.pc = "called"
  /\ fn.name = "normalizeSummaryBullets"
  /\ fn' = [fn EXCEPT !.pc = "returned",
                      !.bullets = TransformLines(NonEmpty(TrimAll(SplitLines(fn.bodyText))),
                                                 <<>>, {}),
                      !.result = normalizeSummaryBullets(fn.summary, <<>>)]
  /\ UNCHANGED <<fin, sc, flowVars>>
  /\ UNCHANGED <<clockVars, pendingVars, storeVars, gateVars>>

\* ---- agent.ts 1251-1259
finalizeSummary(rawSummary, lookbackMinutes, rangeLabel, conversationEntries, hour) ==
  normalizeSummaryBullets(
    ensureGreeting(rawSummary, lookbackMinutes, rangeLabel, hour),
    conversationEntries)

\* ---- agent.ts 1181-1195
ConversationEntry(line) ==
  LET idx == IndexOf(line, ":")
  IN IF idx = 0 THEN [speaker |-> "Unknown", content |-> line]
     ELSE [speaker |-> trim(Take(line, idx - 1)), content |-> trim(From(line, idx + 1))]

extractConversationEntries(conversation) ==
  LET lines == NonEmpty(TrimAll(SplitLines(conversation)))
  IN [i \in DOMAIN lines |-> ConversationEntry(lines[i])]

(***************************************************************************)
(* Fetching the messages of a Discord channel (fetchMessagesBetween)       *)
(***************************************************************************)
MAX_FETCH_PAGES == 10
\* the "limit" of a page request, and the length below which a page is the last
PAGE_LIMIT == 100

\* What the platform answers to a page request. A page of messages is told by
\* what the loop over the sorted page does with it: its length, the number of
\* messages the loop pushes (those inside the window, up to the end message),
\* and whether the loop stops (a message beyond the end of the window, after
\* the end message, or the end message itself); the messages before the
\* window only move the cursor. The platform honours the limit of the request.
PageSizes == {1, PAGE_LIMIT - 1, PAGE_LIMIT}

Pages ==
  {[kind |-> "page", size |-> n, pushed |-> k, stop |-> b] :
     n \in PageSizes, k \in {0, 1, PAGE_LIMIT - 1, PAGE_LIMIT}, b \in BOOLEAN}

PlatformResponses ==
  {[kind |-> "notOk"], [kind |-> "notJson"], [kind |-> "notArray"], [kind |-> "empty"]}
  \cup {r \in Pages : r.pushed <= r.size}

FetchCall ==
  [pc |-> "looping", page |-> 0, messages |-> 0, earlier |-> 0, last |-> [kind |-> "none"]]

\* a loop that goes on after the last page allowed
fetchWithoutCap(f, r) ==
  IF r.kind \in {"notOk", "notJson"}
  THEN [f EXCEPT !.pc = "thrown", !.page = @ + 1, !.earlier = f.messages, !.last = r]
  ELSE IF r.kind \in {"notArray", "empty"}
  THEN [f EXCEPT !.pc = "returned", !.page = @ + 1, !.earlier = f.messages, !.last = r]
  ELSE [f EXCEPT !.pc = IF r.stop \/ r.size < PAGE_LIMIT THEN "returned" ELSE "looping",
                 !.page = @ + 1, !.messages = @ + r.pushed,
                 !.earlier = f.messages, !.last = r]

\* one turn of the while loop, given the answer to its page request: the
\* loop variables after it, and "returned" or "thrown" when the call ends
fetchMessagesBetween(f, r) ==
  IF r.kind \in {"notOk", "notJson"}
  THEN [f EXCEPT !.pc = "thrown", !.page = @ + 1, !.earlier = f.messages,
                 !.last = r]
  ELSE IF r.kind \in {"notArray", "empty"}
  THEN [f EXCEPT !.pc = "returned", !.page = @ + 1, !.earlier = f.messages,
                 !.last = r]
  ELSE [f EXCEPT !.pc = IF r.stop \/ r.size < PAGE_LIMIT \/ f.page + 1 >= MAX_FETCH_PAGES
                        THEN "returned" ELSE "looping",
                 !.page = @ + 1,
                 !.messages = @ + r.pushed,
                 !.earlier = f.messages,
                 !.last = r]

\* a page is requested and the answer handled
FetchPage(r) ==
  /\ fetch # NoCall
  /\ fetch.pc = "looping"
  /\ fetch.page < MAX_FETCH_PAGES
  /\ fetch' = fetchMessagesBetween(fetch, r)
  /\ UNCHANGED <<fin, sc, req, ops, fn>>
  /\ UNCHANGED <<clockVars, pendingVars, storeVars, gateVars>>

(***************************************************************************)
(* The summarise orchestrators: the "summarise chat" entrypoint (agent.ts  *)
(* 410-766), the "summarise telegram chat" entrypoint (768-884) and         *)
(* executeSummariseChat (889-1129)                                          *)
(***************************************************************************)
\* stand-ins for the arrow of a range label and the ellipsis of a snippet
ARROW == ">"
ELLIPSIS == "&"

\* A Discord message as the orchestrators read it: timestamp is
\* new Date(message.timestamp).getTime(), author the first of global_name,
\* display_name and username that is set ("" when none is), reply whether
\* the message refers to another one.
DiscordMessage(id, timestamp, author, content, reply) ==
  [id |-> id, timestamp |-> timestamp, author |-> author, content |-> content, reply |-> reply]

Shipping == DiscordMessage(1, 10, "Alice", "I will ship the report", FALSE)
Asking == DiscordMessage(2, 20, "Bob", "did we fix the bug?", FALSE)
Answering == DiscordMessage(3, 20, "Alice", "Yes,  deployed an hour ago.", TRUE)
Laughing == DiscordMessage(4, 30, "", "lol " \o EMOJI, FALSE)

\* what fetchMessagesBetween gives back: the pages in the order they were
\* fetched, each page sorted; or the call throws
FetchResults ==
  {[kind |-> "throws", messages |-> <<>>]}
  \cup {[kind |-> "messages", messages |-> m] :
          m \in {<<>>, <<Shipping>>, <<Shipping, Asking>>, <<Asking, Shipping>>,
                 <<Shipping, Asking, Answering>>, <<Laughing>>}}

\* ---- agent.ts 1131-1179
\* the place of the i-th message after a stable sort by timestamp: after the
\* earlier messages and after those of the same time that came before it
RankByTimestamp(messages, i) ==
  Cardinality({j \in DOMAIN messages :
                 \/ messages[j].timestamp < messages[i].timestamp
                 \/ messages[j].timestamp = messages[i].timestamp /\ j <= i})

\* the messages in the order given by the ranks
Ranked(messages, ranks) ==
  [p \in DOMAIN messages |-> messages[CHOOSE i \in DOMAIN messages : ranks[i] = p]]

\* [...messages].sort((a, b) => a.timestamp - b.timestamp), a stable sort
SortByTimestamp(messages) ==
  Ranked(messages, [i \in DOMAIN messages |-> RankByTimestamp(messages, i)])

\* the line of one message; the messages of the model carry no attachments
\* and no reactions
ConversationLine(message) ==
  (IF message.author = "" THEN "Unknown user" ELSE message.author)
  \o ": "
  \o (IF trim(CollapseSpaces(message.content)) = "" THEN "(no text content)"
      ELSE trim(CollapseSpaces(message.content)))

ConversationLines(sorted) == [i \in DOMAIN sorted |-> ConversationLine(sorted[i])]

formatConversation(messages) == Join(ConversationLines(SortByTimestamp(messages)), "\n")

\* a formatter that keeps the order it is given
formatUnsorted(messages) == Join(ConversationLines(messages), "\n")

\* ---- the name of a message's author (agent.ts 1139-1143, 2267-2271)
\* message.author as the platform sends it; "" is a field that is absent or
\* empty, which || treats alike
Author(global_name, display_name, username) ==
  [global_name |-> global_name, display_name |-> display_name, username |-> username]

\* author?.global_name || author?.display_name || author?.username, "" when
\* none is set (the last operand of the chain is the caller's literal)
ResolveAuthor(author) ==
  IF author.global_name # "" THEN author.global_name
  ELSE IF author.display_name # "" THEN author.display_name
  ELSE author.username

\* the messages as a list of DiscordMessage
Resolved(messages) ==
  [i \in DOMAIN messages |->
     DiscordMessage(messages[i].id, messages[i].timestamp,
                    ResolveAuthor(messages[i].author), messages[i].content,
                    messages[i].reply)]

Authors ==
  {Author(g, d, u) : g \in {"", "Gigi"}, d \in {"", "Dee"}, u \in {"", "uma"}}

\* one message, or two of which the second may be the earlier one
AuthoredMessages ==
  {<<DiscordMessage(1, 10, a, c, FALSE)>> : a \in Authors, c \in {"hi", ""}}
  \cup {<<DiscordMessage(1, 10, a, "hi", FALSE), DiscordMessage(2, t, b, "ok", TRUE)>> :
          a \in Authors, b \in Authors, t \in {5, 20}}

FormatCalls ==
  {[pc |-> "called", name |-> "formatConversation", messages |-> m, result |-> ""] :
     m \in AuthoredMessages}

\* formatConversation(messages) is called and returns
FormatConversation ==
  /\ fn.pc = "called"
  /\ fn.name = "formatConversation"
  /\ fn' = [fn EXCEPT !.pc = "returned",
                      !.result = formatConversation(Resolved(fn.messages))]
  /\ UNCHANGED <<fin, sc, flowVars>>
  /\ UNCHANGED <<clockVars, pendingVars, storeVars, gateVars>>

\* ---- fetchMessagesBetween message by message (agent.ts 2032-2144), called
\* with the window of a lookback (agent.ts 528-538) or of two message links
\* (539-577).  Times are milliseconds since the Discord epoch.
\* the timestamp of a snowflake is value >> 22n
SNOWFLAKE_UNIT == 4194304
\* end = new Date(endDate.getTime() + 1000)
END_GRACE_MS == 1000

\* a message of the channel: its id is a snowflake, made of the millisecond
\* it was created in and the number it has within that millisecond, and
\* its timestamp is that millisecond
ChannelMessage(ms, seq) == [id |-> ms * SNOWFLAKE_UNIT + seq, timestamp |-> ms]

discordSnowflakeToDate(id) == id \div SNOWFLAKE_UNIT

decrementSnowflake(id) == IF id <= 0 THEN 0 ELSE id - 1

\* snowflakeFromDate(date, -1n)
snowflakeFromDate(ms) == IF ms * SNOWFLAKE_UNIT - 1 > 0 THEN ms * SNOWFLAKE_UNIT - 1 ELSE 0

\* messages of the channel created one per millisecond before the others
Fillers == 98

\* the channel, oldest message first: the fillers, two messages created in
\* the same millisecond, a single one, and two more of one millisecond
Channel ==
  [i \in 1..Fillers |-> ChannelMessage(i, 0)]
  \o <<ChannelMessage(100, 0), ChannelMessage(100, 1), ChannelMessage(150, 0),
       ChannelMessage(200, 0), ChannelMessage(200, 1)>>

\* GET /channels/{id}/messages?limit=100&after=...: the limit messages that
\* come first after the cursor, oldest first
PageAfter(after) ==
  LET k == Cardinality({i \in DOMAIN Channel : Channel[i].id <= after})
  IN SubSeq(Channel, k + 1, IF k + PAGE_LIMIT < Len(Channel) THEN k + PAGE_LIMIT ELSE Len(Channel))

Reversed(page) == [i \in DOMAIN page |-> page[Len(page) + 1 - i]]

\* the arguments of a call, and the loop variables before the first turn
WindowCall(start, end, initialAfterSnowflake, startMessageId, endMessageId) ==
  [name |-> "fetchMessagesBetween", pc |-> "looping",
   start |-> start, end |-> end,
   startMessageId |-> startMessageId, endMessageId |-> endMessageId,
   after |-> initialAfterSnowflake, page |-> 0, shouldStop |-> FALSE,
   messages |-> <<>>, batches |-> {}]

\* usingLookback: the window from start to now; no end message (0)
LookbackCall(start, end) == WindowCall(start, end, snowflakeFromDate(start), 0, 0)

\* usingMessageLinks: the window from the start message to one second after
\* the end message, the cursor just before the start message
LinksCall(startMessageId, endMessageId) ==
  WindowCall(discordSnowflakeToDate(startMessageId),
             discordSnowflakeToDate(endMessageId) + END_GRACE_MS,
             decrementSnowflake(startMessageId), startMessageId, endMessageId)

\* the messages a link may point at
Linked == {1, 2, Fillers + 1, Fillers + 2, Fillers + 3, Fillers + 4, Fillers + 5}

WindowCalls ==
  {LookbackCall(start, end) : start \in {0, 1, 100, 150}, end \in {150, 199, 200, 300}}
  \cup {LinksCall(Channel[p[1]].id, Channel[p[2]].id) :
          p \in {q \in Linked \X Linked : q[1] <= q[2]}}

\* The for loop over the sorted page.  A message before the window only
\* moves the cursor (continue).  The loop is left at the first message that
\* is not before the window and is past its end or has an id greater than
\* the end message's (break before the push), or that is the end message
\* (break after the push).
BreaksBefore(f, message) ==
  /\ message.timestamp >= f.start
  /\ \/ message.timestamp > f.end
     \/ f.endMessageId # 0 /\ message.id > f.endMessageId

BreaksAfter(f, message) ==
  /\ message.timestamp >= f.start
  /\ ~BreaksBefore(f, message)
  /\ f.endMessageId # 0 /\ message.id = f.endMessageId

\* the messages the loop gets through, and whether it was left by a break
Scanned(f, sortedBatch) ==
  LET breaks == {i \in DOMAIN sortedBatch :
                   BreaksBefore(f, sortedBatch[i]) \/ BreaksAfter(f, sortedBatch[i])}
      first == CHOOSE i \in breaks : \A j \in breaks : i <= j
  IN IF breaks = {} THEN [done |-> sortedBatch, shouldStop |-> FALSE]
     ELSE [done |-> SubSeq(sortedBatch, 1,
                           IF BreaksAfter(f, sortedBatch[first]) THEN first ELSE first - 1),
           shouldStop |-> TRUE]

\* the loop variables when the for loop is left: every message it got
\* through moved the cursor, those not before the window were pushed
AfterScan(f, scanned) ==
  [f EXCEPT !.messages = @ \o SelectSeq(scanned.done, LAMBDA m : m.timestamp >= f.start),
            !.after = IF scanned.done = <<>> THEN @ ELSE scanned.done[Len(scanned.done)].id,
            !.shouldStop = scanned.shouldStop]

ScanBatch(f, sortedBatch) == AfterScan(f, Scanned(f, sortedBatch))

\* what the loop does after the for loop: break on a short page, or go on
\* while (!shouldStop && page < MAX_FETCH_PAGES)
AfterBatch(f, batch) ==
  [f EXCEPT !.pc = IF f.shouldStop \/ Len(batch) < PAGE_LIMIT \/ f.page >= MAX_FETCH_PAGES
                   THEN "returned" ELSE "looping"]

\* one turn of the while loop on the page the platform answered with
FetchTurn(f, ok, batch) ==
  IF ~ok THEN [f EXCEPT !.pc = "thrown", !.page = @ + 1]
  ELSE IF batch = <<>> THEN [f EXCEPT !.pc = "returned", !.page = @ + 1]
  ELSE AfterBatch(ScanBatch([f EXCEPT !.page = @ + 1,
                                      !.batches = @ \cup {batch[i].id : i \in DOMAIN batch}],
                            SortByTimestamp(batch)),
                  batch)

\* The platform answers the page request: with an error status, or with the
\* page after the cursor, oldest or newest message first.
FetchBatch(ok, newestFirst) ==
  /\ fn.pc = "looping"
  /\ fn.name = "fetchMessagesBetween"
  /\ fn' = FetchTurn(fn, ok, IF newestFirst THEN Reversed(PageAfter(fn.after))
                                ELSE PageAfter(fn.after))
  /\ UNCHANGED <<fin, sc, flowVars>>
  /\ UNCHANGED <<clockVars, pendingVars, storeVars, gateVars>>

\* ---- agent.ts 1961-1994
containsEmoji(text) == Includes(text, EMOJI)

HumorCues ==
  {"fooling you all", "finally rug", "confession", "gotcha", "i admit", "i lied",
   "villain arc", "not sorry", "menace", "clowned", "ratiod", "ratio'd", "roast",
   "tenny", "centos", "0.10", "at last", "finally", "haha", "lol", "lmao"}

\* /\$\d+/ and /for \d+ years/
HasDollarAmount(lower) ==
  \E i \in 1..Len(lower) : At(lower, i) = "$" /\ At(lower, i + 1) \in DigitChars
HasForYears(lower) ==
  \E i \in 1..Len(lower), j \in 1..Len(lower) :
    /\ MatchAt(lower, "for ", i)
    /\ j > i + 4
    /\ \A k \in (i + 4)..(j - 1) : At(lower, k) \in DigitChars
    /\ MatchAt(lower, " years", j)

\* the emoji the fifth pattern names are not in the alphabet of the model
HasHumorCue(lower) ==
  \/ \E cue \in HumorCues : Includes(lower, cue)
  \/ HasDollarAmount(lower)
  \/ HasForYears(lower)

containsHumorCue(text) == HasHumorCue(toLowerCase(text))

SOCIAL_LENGTH == 60

shouldForceSocialDiscord(messages) ==
  \E i \in DOMAIN messages :
    \/ Len(messages[i].content) >= SOCIAL_LENGTH
    \/ containsEmoji(messages[i].content)
    \/ containsHumorCue(messages[i].content)
    \/ messages[i].reply

\* ---- agent.ts 1996-2030
SNIPPET_LENGTH == 120

\* the first of the longest texts: sorted[0] of the stable sort by length,
\* longest first
Highlight(texts) ==
  CHOOSE i \in DOMAIN texts :
    /\ \A j \in DOMAIN texts : Len(texts[j]) <= Len(texts[i])
    /\ \A j \in 1..(i - 1) : Len(texts[j]) < Len(texts[i])

TrimmedSnippet(snippet) ==
  IF Len(snippet) > SNIPPET_LENGTH THEN Take(snippet, SNIPPET_LENGTH - 3) \o ELLIPSIS
  ELSE snippet

SocialSummary(author, what, text) ==
  "Chat stayed lively. " \o author \o " sparked " \o what \o ": \""
  \o TrimmedSnippet(trim(text)) \o "\""

SocialOfHighlight(highlight, what, text) ==
  SocialSummary(IF highlight.author = "" THEN "Someone" ELSE highlight.author, what, text)

buildSocialFallbackSummaryFromDiscord(messages) ==
  IF messages = <<>> THEN "Chat stayed lighthearted with some friendly banter."
  ELSE LET highlight == messages[Highlight([i \in DOMAIN messages |-> messages[i].content])]
       IN SocialOfHighlight(highlight, "engagement", highlight.content)

\* a stored Telegram message has its author in authorDisplay ("" when neither
\* authorDisplay nor authorUsername is set)
buildSocialFallbackSummaryFromTelegram(messages) ==
  IF messages = <<>> THEN "Chat stayed lighthearted with some friendly banter."
  ELSE LET highlight == messages[Highlight([i \in DOMAIN messages |-> messages[i].text])]
       IN SocialOfHighlight([author |-> highlight.authorDisplay], "reactions", highlight.text)

\* ---- agent.ts 2262-2371, 2373-2396 and 680-692: the messages of the payload
buildDiscordSummarizerMessages(messages) ==
  [i \in DOMAIN messages |->
     [id |-> messages[i].id, timestamp |-> messages[i].timestamp,
      author |-> IF messages[i].author = "" THEN "Unknown" ELSE messages[i].author,
      text |-> messages[i].content]]

\* a payload builder that sorts the messages first
buildSortedSummarizerMessages(messages) ==
  buildDiscordSummarizerMessages(SortByTimestamp(messages))

EntrypointPayload(messages) ==
  [i \in DOMAIN messages |->
     [id |-> messages[i].id, timestamp |-> messages[i].timestamp,
      author |-> messages[i].author, text |-> messages[i].content]]

buildTelegramSummarizerMessages(messages) ==
  [i \in DOMAIN messages |->
     [id |-> messages[i].messageId, timestamp |-> messages[i].timestampMs,
      author |-> IF messages[i].authorDisplay = "" THEN "Member" ELSE messages[i].authorDisplay,
      text |-> trim(messages[i].text)]]

\* ---- agent.ts 700-707: the clean-up of the summary in the entrypoint
HasFourDigits(t) ==
  \E k \in 1..(Len(t) - 3) : \A d \in 0..3 : At(t, k + d) \in DigitChars

\* the place of the first "]" after place i, 0 when there is none
ClosingAfter(s, i) ==
  IF IndexOf(From(s, i + 1), "]") = 0 THEN 0 ELSE i + IndexOf(From(s, i + 1), "]")

\* /\[\d{4}-\d{2}-\d{2}T[^\]]+\]/ matches at place i
IsoStampAt(s, i) ==
  /\ At(s, i) = "["
  /\ \A d \in {1, 2, 3, 4, 6, 7, 9, 10} : At(s, i + d) \in DigitChars
  /\ At(s, i + 5) = "-" /\ At(s, i + 8) = "-" /\ At(s, i + 11) = "T"
  /\ ClosingAfter(s, i + 11) > i + 12

\* /\[[^\]]*\d{4}[^\]]*\]/ matches at place i
BracketStampAt(s, i) ==
  /\ At(s, i) = "["
  /\ ClosingAfter(s, i) > 0
  /\ HasFourDigits(SubSeq(s, i + 1, ClosingAfter(s, i) - 1))

StampAt(s, i, iso) == IF iso THEN IsoStampAt(s, i) ELSE BracketStampAt(s, i)
StampEnd(s, i, iso) == IF iso THEN ClosingAfter(s, i + 11) ELSE ClosingAfter(s, i)

FirstStamp(s, iso) ==
  IF \E i \in 1..Len(s) : StampAt(s, i, iso)
  THEN CHOOSE i \in 1..Len(s) :
         StampAt(s, i, iso) /\ \A j \in 1..(i - 1) : ~StampAt(s, j, iso)
  ELSE 0

\* s.replace(pattern, "") with the g flag
RECURSIVE StripStamps(_, _)
StripStampsFrom(s, first, iso) ==
  IF first = 0 THEN s
  ELSE Take(s, first - 1) \o StripStamps(From(s, StampEnd(s, first, iso) + 1), iso)
StripStamps(s, iso) == StripStampsFrom(s, FirstStamp(s, iso), iso)

\* s.replace(/x402 Summariser[^\n]*\n?/gi, "")
RECURSIVE StripSummariser(_)
StripSummariserFrom(s, first, newline) ==
  IF first = 0 THEN s
  ELSE Take(s, first - 1)
       \o (IF newline = 0 THEN "" ELSE StripSummariser(From(s, first + newline)))
StripSummariserAt(s, first) ==
  StripSummariserFrom(s, first, IF first = 0 THEN 0 ELSE IndexOf(From(s, first), "\n"))
StripSummariser(s) == StripSummariserAt(s, IndexOf(toLowerCase(s), "x402 summariser"))

CleanSummary(summary) ==
  trim(StripSummariser(StripStamps(StripStamps(summary, TRUE), FALSE)))

\* /quiet hour/i.test(s)
IsQuietHour(s) == Includes(toLowerCase(s), "quiet hour")

\* ---- the requests
\* the hour of the local clock when a summary is finalized
ClockHour == 9
\* guildMeta.name and channelMeta.name joined
ChannelLabel == "guild - #general"
\* error.message of a failed LLM call
LlmError == "LLM down"

\* A request: its input (lookbackMinutes 0 and a link "" when not given),
\* whether axClient.ax is set, and where the handler is: received, fetching
\* (at the awaits of the platform), awaiting (at the await of the LLM),
\* returned, rejected (the input is refused) or failed (an error leaves the
\* handler).  via tells which return statement gave the summary.
SummariseRequest(path, lookbackMinutes, startMessageUrl, endMessageUrl, llm) ==
  [pc |-> "received", path |-> path, lookbackMinutes |-> lookbackMinutes,
   startMessageUrl |-> startMessageUrl, endMessageUrl |-> endMessageUrl,
   llm |-> llm, rangeLabel |-> "", fetches |-> 0, messages |-> <<>>,
   conversation |-> "", payload |-> <<>>, llmCalls |-> 0,
   result |-> [kind |-> "none", summary |-> ""], summary |-> "", via |-> ""]

StartLinks == {"", "https://d/1/2/3"}
EndLinks == {"", "https://d/1/2/4"}

SummariseRequests ==
  {SummariseRequest(path, lookbackMinutes, s, e, llm) :
     path \in {"entrypoint", "execute"},
     lookbackMinutes \in {0, DEFAULT_LOOKBACK_MINUTES},
     s \in StartLinks, e \in EndLinks, llm \in BOOLEAN}
  \cup {SummariseRequest("telegram", lookbackMinutes, "", "", llm) :
          lookbackMinutes \in {0, 1}, llm \in BOOLEAN}

\* what the LLM call ends with: it throws, or gives a result whose summary
\* is empty, blank, a quiet-hour line, a line of the transcript, or a
\* greeted summary with a timestamp and a line of the summariser
LlmResults ==
  {[kind |-> "throws", summary |-> ""]}
  \cup {[kind |-> "summary", summary |-> s] :
          s \in {"", "  ", "Quiet hour, nothing new.",
                 "Alice: I will ship the report",
                 "[2024-05-01T10:00:00Z] Good morning! All shipped.\nx402 Summariser: paid\n"}}

Respond(r, summary, via) ==
  [r EXCEPT !.pc = "returned", !.summary = summary, !.via = via]

\* ---- agent.ts 452-490: the issues superRefine adds
SchemaIssues(r) ==
  {issue \in {"not both", "both links", "lookback or links"} :
     \/ /\ issue = "not both"
        /\ r.lookbackMinutes # 0
        /\ (r.startMessageUrl # "" \/ r.endMessageUrl # "")
     \/ /\ issue = "both links"
        /\ (r.startMessageUrl # "") # (r.endMessageUrl # "")
     \/ /\ issue = "lookback or links"
        /\ r.lookbackMinutes = 0
        /\ ~(r.startMessageUrl # "" /\ r.endMessageUrl # "")}

\* ---- agent.ts 509-585 and 914-992: the window is resolved, or the handler
\* throws; the links of the model parse and name one channel, start first
usingLookback(r) == r.lookbackMinutes # 0
usingMessageLinks(r) == r.startMessageUrl # "" /\ r.endMessageUrl # ""

ResolveWindow(r) ==
  IF usingLookback(r)
  THEN [r EXCEPT !.pc = "fetching", !.fetches = 1,
                 !.rangeLabel = "the last " \o NatToStr(r.lookbackMinutes) \o " minutes"]
  ELSE IF usingMessageLinks(r)
  THEN [r EXCEPT !.pc = "fetching", !.fetches = 1,
                 !.rangeLabel = "message links " \o r.startMessageUrl \o " " \o ARROW
                                \o " " \o r.endMessageUrl]
  ELSE [r EXCEPT !.pc = "rejected"]

\* ---- agent.ts 647-655, 1044-1050: the first five lines of the transcript
SliceLines(lines, n) == SubSeq(lines, 1, IF Len(lines) < n THEN Len(lines) ELSE n)

FallbackOr(fallbackSummary, otherwise) ==
  IF fallbackSummary = "" THEN otherwise ELSE fallbackSummary

FallbackText(conversation, otherwise) ==
  FallbackOr(trim(Join(SliceLines(SplitLines(conversation), 5), "\n")), otherwise)

FinalizedFallback(r, otherwise) ==
  finalizeSummary(FallbackText(r.conversation, otherwise), r.lookbackMinutes,
                  r.rangeLabel, extractConversationEntries(r.conversation), ClockHour)

\* the return of the handlers when axClient.ax is not set, or the LLM call
\* has thrown (agent.ts 645-669 and 719-760, 834-842 and 873-882, 1037-1061
\* and 1102-1128)
WithoutLlm(r, otherwise) ==
  IF r.path = "telegram"
  THEN Respond(r, buildSocialFallbackSummaryFromTelegram(r.messages), "social")
  ELSE IF r.path = "execute" /\ shouldForceSocialDiscord(r.messages)
  THEN Respond(r, buildSocialFallbackSummaryFromDiscord(r.messages), "social")
  ELSE Respond(r, FinalizedFallback(r, otherwise), "finalized")

NotConfigured(r) ==
  IF r.path = "entrypoint"
  THEN "Messages retrieved (" \o r.rangeLabel
       \o "), but AxFlow is not configured to generate a summary."
  ELSE "No material updates or chatter in this window."

LlmFailed(r) ==
  IF r.path = "entrypoint"
  THEN "Messages retrieved (" \o r.rangeLabel
       \o "), but failed to generate AI summary: " \o LlmError
  ELSE "No material updates or chatter in this window."

\* the handler from the LLM's check to the await of the LLM call
CallLlm(r, payload) ==
  IF ~r.llm THEN WithoutLlm(r, NotConfigured(r))
  ELSE [r EXCEPT !.pc = "awaiting", !.payload = payload, !.llmCalls = @ + 1]

\* ---- agent.ts 610-672 and 1012-1078: the handler from the answer of
\* fetchMessagesBetween to the await of the LLM call
AfterFetch(r, result) ==
  IF result.kind = "throws" THEN [r EXCEPT !.pc = "failed"]
  ELSE IF result.messages = <<>>
  THEN Respond(r, "No Discord messages found in " \o ChannelLabel \o " for "
                  \o r.rangeLabel \o ".", "empty")
  ELSE CallLlm([r EXCEPT !.messages = result.messages,
                         !.conversation = formatConversation(result.messages)],
               IF r.path = "entrypoint" THEN EntrypointPayload(result.messages)
               ELSE buildDiscordSummarizerMessages(result.messages))

\* ---- agent.ts 814-817
meaningfulMessages(messages) ==
  SelectSeq(messages, LAMBDA msg : trim(msg.text) # "" /\ ~StartsWith(trim(msg.text), "/"))

\* ---- agent.ts 801-850: the Telegram handler up to the await of the LLM
\* call; the chat id of the model is the number 7
AfterRead(r, meaningful) ==
  CallLlm([r EXCEPT !.messages = meaningful,
                    !.lookbackMinutes = IF @ = 0 THEN DEFAULT_LOOKBACK_MINUTES ELSE @],
          buildTelegramSummarizerMessages(meaningful))

\* ---- the handlers after the LLM call (agent.ts 688-760, 852-882,
\* 1080-1128)
\* the entrypoint returns the cleaned summary
EntrypointSummary(r, cleaned) ==
  IF cleaned = "" THEN Respond(r, "Summary generated successfully.", "default")
  ELSE Respond(r, cleaned, "llm")

TelegramSummary(r, summary) ==
  IF IsQuietHour(summary) \/ summary = ""
  THEN Respond(r, buildSocialFallbackSummaryFromTelegram(r.messages), "social")
  ELSE Respond(r, summary, "llm")

ExecuteSummary(r, summary, social) ==
  IF social /\ (IsQuietHour(summary) \/ summary = "")
  THEN Respond(r, buildSocialFallbackSummaryFromDiscord(r.messages), "social")
  ELSE IF summary = ""
  THEN Respond(r, "No material updates or chatter in this window.", "default")
  ELSE Respond(r, summary, "llm")

\* a handler that lets the error of the LLM call leave it
AfterLlmRethrowing(r, result) ==
  IF result.kind = "throws" THEN [r EXCEPT !.pc = "failed", !.result = result]
  ELSE IF r.path = "entrypoint"
  THEN EntrypointSummary([r EXCEPT !.result = result], CleanSummary(result.summary))
  ELSE IF r.path = "telegram"
  THEN TelegramSummary([r EXCEPT !.result = result], trim(result.summary))
  ELSE ExecuteSummary([r EXCEPT !.result = result], trim(result.summary),
                      shouldForceSocialDiscord(r.messages))

\* a handler that gives the LLM's summary to finalizeSummary
AfterLlmFinalizing(r, result) ==
  IF result.kind = "throws"
  THEN WithoutLlm([r EXCEPT !.result = result], LlmFailed(r))
  ELSE IF trim(result.summary) = ""
  THEN Respond([r EXCEPT !.result = result],
               "No material updates or chatter in this window.", "default")
  ELSE Respond([r EXCEPT !.result = result],
               finalizeSummary(trim(result.summary), r.lookbackMinutes, r.rangeLabel,
                               extractConversationEntries(r.conversation), ClockHour),
               "finalized")

AfterLlm(r, result) ==
  IF result.kind = "throws"
  THEN WithoutLlm([r EXCEPT !.result = result], LlmFailed(r))
  ELSE IF r.path = "entrypoint"
  THEN EntrypointSummary([r EXCEPT !.result = result], CleanSummary(result.summary))
  ELSE IF r.path = "telegram"
  THEN TelegramSummary([r EXCEPT !.result = result], trim(result.summary))
  ELSE ExecuteSummary([r EXCEPT !.result = result], trim(result.summary),
                      shouldForceSocialDiscord(r.messages))

\* ---- telegram.ts 31-57: bot.on("message")
\* inbound messages in one behaviour
MaxInbound == 2

\* msg.chat?.id (0 when there is none), msg.text and msg.date in seconds
InboundChats == {0, 7}
InboundTexts == {"ship it friday", "/summarise 60", "   ", " /start"}
InboundDates == {StoreStart \div 1000, StoreStart \div 1000 - 1}

\* the inbound messages seen so far
Inbound == [seen |-> <<>>]

\* a handler that stores whatever arrives
ShouldStoreAny(chatId, text) == TRUE

ShouldStore(chatId, text) ==
  chatId # 0 /\ Len(trim(text)) > 0 /\ ~StartsWith(trim(text), "/")

StoredMessage(messageId, text, date) ==
  [messageId |-> messageId, text |-> text, timestampMs |-> date * 1000,
   authorDisplay |-> "Alice", replyToMessageId |-> 0]

\* a message arrives before the request reads the buffer
OnMessage(chatId, text, date) ==
  /\ req # NoCall /\ req.path = "telegram" /\ req.pc = "received"
  /\ ops # NoCall
  /\ Len(ops.seen) < MaxInbound
  /\ ops' = [ops EXCEPT !.seen = Append(@, [chatId |-> chatId, text |-> text,
                                            messageId |-> nextMessageId])]
  /\ nextMessageId' = nextMessageId + 1
  /\ IF ShouldStore(chatId, text)
     THEN /\ messageStore' = addTelegramMessage(messageStore, chatId, StoredMessage(nextMessageId, text, date), now)
          /\ inserts' = inserts + 1
          /\ lastInsert' = [chatId |-> chatId, message |-> StoredMessage(nextMessageId, text, date),
                            at |-> now, before |-> messageStore,
                            after |-> addTelegramMessage(messageStore, chatId, StoredMessage(nextMessageId, text, date), now)]
     ELSE UNCHANGED <<messageStore, inserts, lastInsert>>
  /\ UNCHANGED <<clockVars, pendingVars, gateVars, fin, sc, fetch, req, fn>>

\* ---- the steps of a request
\* the "summarise chat" entrypoint: the schema, then the handler to its
\* first await
SummariseChat ==
  /\ req # NoCall /\ req.path = "entrypoint" /\ req.pc = "received"
  /\ req' = IF SchemaIssues(req) # {} THEN [req EXCEPT !.pc = "rejected"]
            ELSE ResolveWindow(req)
  /\ UNCHANGED <<clockVars, pendingVars, storeVars, gateVars, fin, sc, fetch, ops, fn>>

\* executeSummariseChat to its first await
ExecuteSummariseChat ==
  /\ req # NoCall /\ req.path = "execute" /\ req.pc = "received"
  /\ req' = ResolveWindow(req)
  /\ UNCHANGED <<clockVars, pendingVars, storeVars, gateVars, fin, sc, fetch, ops, fn>>

\* fetchMessagesBetween ends and the handler runs on
MessagesFetched(result) ==
  /\ req # NoCall /\ req.pc = "fetching"
  /\ req' = AfterFetch(req, result)
  /\ UNCHANGED <<clockVars, pendingVars, storeVars, gateVars, fin, sc, fetch, ops, fn>>

\* the "summarise telegram chat" entrypoint to the await of the LLM call
SummariseTelegramChat ==
  /\ req # NoCall /\ req.path = "telegram" /\ req.pc = "received"
  /\ req' = AfterRead(req, meaningfulMessages(getTelegramMessagesWithin(messageStore, 7, IF req.lookbackMinutes = 0 THEN DEFAULT_LOOKBACK_MINUTES ELSE req.lookbackMinutes, now)))
  /\ UNCHANGED <<clockVars, pendingVars, storeVars, gateVars, fin, sc, fetch, ops, fn>>

\* structuredSummaryFlow.forward ends and the handler runs to its return
LlmAnswers(result) ==
  /\ req # NoCall /\ req.pc = "awaiting"
  /\ req' = AfterLlm(req, result)
  /\ UNCHANGED <<clockVars, pendingVars, storeVars, gateVars, fin, sc, fetch, ops, fn>>

(***************************************************************************)
(* Calls of the pipeline                                                   *)
(***************************************************************************)
\* body lines of a raw summary
MaxBodyLines == 2
\* entries between a question and its reply in a conversation
MaxGap == 5
\* filler phrases appended to a bullet before it is scored
MaxPad == 7

\* first lines of a raw summary; "" for a summary that starts with its body
FirstLines ==
  {"", "Hello team, here is the recap:", "Highlights: the release is out", "Summary"}

\* bullet markers the summariser puts before a line
Markers == {"", BULLET \o " "}

Questions == {"did we fix the bug?", "can I merge the fix?"}

QUIET_SUMMARY == "Pretty quiet " \o EMDASH \o " vibes up, volume down."

Statements ==
  {"Alice: I will ship the report",
   "Alice: did we fix the bug?",
   "Bob, we must deploy the fix today",
   "one " \o BULLET \o " two",
   "lol",
   EMOJI \o EMOJI}

\* raw summaries of one line, and summaries with nothing to say
SingleLines ==
  Statements
  \cup {"Alice: " \o q : q \in Questions}
  \cup {QUIET_SUMMARY, "is it  done ??", "- " \o QUIET_SUMMARY, "hi all",
        "Good  evening team", "", " \n ", BULLET, BULLET \o "\n-\n" \o BULLET, ":"}

\* the characters of the longest line of emoji
MaxEmoji == 19

RECURSIVE Emojis(_)
Emojis(n) == IF n = 0 THEN "" ELSE EMOJI \o Emojis(n - 1)

\* lines of emoji and lines that are dropped or kept beside them
EmojiLines == {Emojis(2), Emojis(MaxEmoji)}
EmojiBodyLines == EmojiLines \cup {"hmm ok", "Bob, we must deploy the fix today"}

\* the sequences of at most n statements
RECURSIVE Bodies(_)
Bodies(n) ==
  IF n = 0 THEN {<<>>}
  ELSE Bodies(n - 1)
       \cup {Append(b, x) : b \in {c \in Bodies(n - 1) : Len(c) = n - 1}, x \in Statements}

RawSummary(first, marker, body) ==
  Join((IF first = "" THEN <<>> ELSE <<first>>)
       \o [i \in DOMAIN body |-> marker \o body[i]], "\n")

EmojiSummaries ==
  {RawSummary("Hello team, here is the recap:", m, b) :
     m \in Markers,
     b \in {<<x>> : x \in EmojiBodyLines}
           \cup {<<x, y>> : x \in EmojiBodyLines, y \in EmojiBodyLines}}

RawSummaries ==
  {RawSummary(f, m, b) : f \in FirstLines, m \in Markers, b \in Bodies(MaxBodyLines)}

\* a conversation in which Alice asks, `gap` entries follow, and Bob replies
Filler(gap) == [i \in 1..gap |-> [speaker |-> "Carol", content |-> "hmm"]]

Replies == {"Yes, deployed an hour ago.", "not yet", "let me look"}

Conversation(question, gap, reply) ==
  <<[speaker |-> "Alice", content |-> capitalizeFirst(question)]>>
  \o Filler(gap)
  \o <<[speaker |-> "Bob", content |-> reply]>>

Conversations ==
  {Conversation(q, g, r) : q \in Questions, g \in 0..MaxGap, r \in Replies}

\* the window of the summary as [lookbackMinutes, rangeLabel], and the hour
\* of the local clock
Windows ==
  {[lookbackMinutes |-> DEFAULT_LOOKBACK_MINUTES, rangeLabel |-> "the last 60 minutes"],
   [lookbackMinutes |-> 0, rangeLabel |-> "message links https://d/1 " \o EMDASH \o " https://d/2"],
   [lookbackMinutes |-> 0, rangeLabel |-> ""]}
SampleHours == {3, 9, 13, 18}
Windows1 == [lookbackMinutes |-> DEFAULT_LOOKBACK_MINUTES, rangeLabel |-> "the last 60 minutes"]

FinalizeCall(raw, window, entries, hour) ==
  [pc |-> "called", rawSummary |-> raw,
   lookbackMinutes |-> window.lookbackMinutes, rangeLabel |-> window.rangeLabel,
   conversationEntries |-> entries, hour |-> hour, out |-> "",
   rerunHour |-> hour, again |-> ""]

ShortConversation == Conversation("did we fix the bug?", 0, "Yes, deployed an hour ago.")

\* the calls made: every summary shape against a short conversation, every
\* one-line summary against no conversation, and every question line against
\* every conversation
FinalizeCalls ==
  {FinalizeCall(raw, w, ShortConversation, 9) : raw \in RawSummaries, w \in Windows}
  \cup {FinalizeCall(raw, w, <<>>, h) :
          raw \in SingleLines, w \in Windows, h \in {9, 23}}
  \cup {FinalizeCall(BULLET \o " Alice: " \o q, Windows1, e, h) :
          q \in Questions, e \in Conversations, h \in SampleHours}
  \cup {FinalizeCall(raw, Windows1, ShortConversation, 9) : raw \in EmojiSummaries}

\* finalizeSummary(rawSummary, lookbackMinutes, rangeLabel, conversationEntries)
Finalize ==
  /\ fin.pc = "called"
  /\ fin' = [fin EXCEPT
               !.pc = "returned",
               !.out = finalizeSummary(fin.rawSummary, fin.lookbackMinutes,
                                       fin.rangeLabel, fin.conversationEntries,
                                       fin.hour)]
  /\ UNCHANGED <<sc, flowVars, fn>>
  /\ UNCHANGED <<clockVars, pendingVars, storeVars, gateVars>>

\* the output is finalized once more, at some later hour
FinalizeAgain(hour) ==
  /\ fin.pc = "returned"
  /\ fin' = [fin EXCEPT
               !.pc = "rerun",
               !.rerunHour = hour,
               !.again = finalizeSummary(fin.out, fin.lookbackMinutes,
                                         fin.rangeLabel, fin.conversationEntries,
                                         hour)]
  /\ UNCHANGED <<sc, flowVars, fn>>
  /\ UNCHANGED <<clockVars, pendingVars, storeVars, gateVars>>

\* ---- scoreBullet calls
ACTION_SUFFIX == " must ship by Friday"

RECURSIVE Padding(_)
Padding(n) == IF n = 0 THEN "" ELSE " and so on it goes" \o Padding(n - 1)

BulletCores ==
  {"", " ", "ok", "lol", "5", EMOJI \o EMOJI, "release", "mustard is tasty",
   "the plan is ready", "we agreed on the budget today", "what happened",
   "see you at 10:30", "Bob must ship", "we need to talk", "nothing new  "}

ScoredBullets ==
  {m \o c \o Padding(n) : m \in {"", BULLET \o " "}, c \in BulletCores, n \in 0..MaxPad}

ScoreCall(bullet) ==
  [pc |-> "called", bullet |-> bullet, plain |-> 0, extended |-> 0]

\* scoreBullet(bullet) and scoreBullet(bullet + " must ship by Friday")
Score ==
  /\ sc.pc = "called"
  /\ sc' = [sc EXCEPT !.pc = "returned",
                      !.plain = scoreBullet(sc.bullet),
                      !.extended = scoreBullet(sc.bullet \o ACTION_SUFFIX)]
  /\ UNCHANGED <<fin, flowVars, fn>>
  /\ UNCHANGED <<clockVars, pendingVars, storeVars, gateVars>>

(***************************************************************************)
(* Properties                                                              *)
(***************************************************************************)
PendingMap(platform) ==
  IF platform = "discord" THEN pendingDiscordCallbacks ELSE pendingTelegramCallbacks

DeliveriesOf(platform, key) ==
  {d \in DOMAIN deliveries :
     deliveries[d].platform = platform /\ deliveries[d].key = key}

\* C1: a pending-callback token is single-use.  Whatever the interleaving of
\* callback requests, at most one callback finds the entry of a token; once
\* one has, the entry is gone from the map, every later callback carrying
\* the token is answered 404, and at most one posting to the chat was ever
\* started for the token.
TokenSingleUse ==
  \A p \in Platforms : \A k \in DOMAIN consumed[p] :
    /\ consumed[p][k].found <= 1
    /\ consumed[p][k].replays \subseteq {404}
    /\ consumed[p][k].found >= 1 => k \notin DOMAIN PendingMap(p)
    /\ Cardinality(DeliveriesOf(p, k)) <= 1

\* a token was consumed by one callback and presented again by a later one
TokenReplayed ==
  \E p \in Platforms : \E k \in DOMAIN consumed[p] :
    /\ consumed[p][k].found = 1
    /\ 404 \in consumed[p][k].replays
    /\ DeliveriesOf(p, k) # {}

\* C2: every buffer holds at most MAX_MESSAGES_PER_CHAT messages.  Right
\* after an insert, every message kept for the chat is no older than 24 hours
\* before the insert, the kept messages are in insertion order, every message
\* that was dropped is either older than 24 hours or was inserted before all
\* the kept ones with the buffer left full, and the buffers of the other
\* chats are as they were.
BufferTrimmed ==
  /\ \A c \in DOMAIN messageStore : Len(messageStore[c]) <= MAX_MESSAGES_PER_CHAT
  /\ lastInsert # NoInsert =>
       LET c == lastInsert.chatId
           offered == Append(getTelegramMessages(lastInsert.before, c),
                             lastInsert.message)
           kept == getTelegramMessages(lastInsert.after, c)
           keptSet == {kept[i] : i \in DOMAIN kept}
       IN /\ \A i \in DOMAIN kept : kept[i].timestampMs >= lastInsert.at - DAY_MS
          /\ \A i \in DOMAIN kept :
               i > 1 => kept[i - 1].messageId < kept[i].messageId
          /\ keptSet \subseteq {offered[i] : i \in DOMAIN offered}
          /\ \A i \in DOMAIN offered :
               \/ offered[i] \in keptSet
               \/ offered[i].timestampMs < lastInsert.at - DAY_MS
               \/ /\ Len(kept) = MAX_MESSAGES_PER_CHAT
                  /\ offered[i].messageId < kept[1].messageId
          /\ \A d \in (DOMAIN lastInsert.before \cup DOMAIN lastInsert.after) \ {c} :
               /\ d \in DOMAIN lastInsert.before
               /\ d \in DOMAIN lastInsert.after
               /\ lastInsert.after[d] = lastInsert.before[d]

\* an insert into a full buffer of recent messages pushed the oldest one out
BufferOverflowed ==
  /\ lastInsert # NoInsert
  /\ Len(getTelegramMessages(lastInsert.before, lastInsert.chatId))
       = MAX_MESSAGES_PER_CHAT
  /\ Len(getTelegramMessages(lastInsert.after, lastInsert.chatId))
       = MAX_MESSAGES_PER_CHAT
  /\ lastInsert.message.timestampMs >= lastInsert.at - DAY_MS
  /\ lastInsert.after[lastInsert.chatId][MAX_MESSAGES_PER_CHAT] = lastInsert.message

PaymentAccepted(r) == r.header = "matched" /\ r.verify = "valid"

\* C3: for a request to a summarise invoke path, the agent handler is called
\* only when the X-PAYMENT header decoded, matched the requirement and was
\* reported valid by verify; a request that is finished without that was
\* answered 402, and neither the handler nor settle was called for it.
SummarisePaymentGated ==
  \A i \in DOMAIN requests :
    LET r == requests[i]
    IN IsGated(r.pathname) =>
         /\ r.handlerCalls > 0 => PaymentAccepted(r)
         /\ r.settleCalls > 0 => PaymentAccepted(r)
         /\ (r.pc = "done" /\ ~PaymentAccepted(r)) =>
              r.status = 402 /\ r.handlerCalls = 0 /\ r.settleCalls = 0
         /\ (r.header # "matched") => r.verify = "none"

\* one summarise request was refused after verify, another got through
GateRefusedAndPassed ==
  \E i, j \in DOMAIN requests :
    /\ IsGated(requests[i].pathname) /\ IsGated(requests[j].pathname)
    /\ requests[i].header = "matched" /\ requests[i].verify \in {"throws", "invalid"}
    /\ requests[i].status = 402 /\ requests[i].pc = "done"
    /\ requests[j].handlerCalls = 1 /\ requests[j].verify = "valid"

\* ---- the lines of a summary
FirstLine(text) == SplitLines(text)[1]

LinesOf(text) == {SplitLines(text)[i] : i \in DOMAIN SplitLines(text)}

\* the number of lines of text that start with the bullet marker
BulletLineCount(text) ==
  Cardinality({i \in DOMAIN SplitLines(text) : StartsWith(SplitLines(text)[i], BULLET)})

\* the number of places at which part occurs in text
CountOf(text, part) == Cardinality({i \in 1..Len(text) : MatchAt(text, part, i)})

IsSingleLine(raw) == trim(raw) # "" /\ ~Includes(trim(raw), "\n")

Returned == fin.pc \in {"returned", "rerun"}

\* the intro that greeting assurance builds for the call
IntroOf(call) ==
  timeBasedGreeting(call.hour) \o " Here is what happened in "
  \o WindowPhrase(call.lookbackMinutes, call.rangeLabel) \o ":"

\* C4: for a summary line "Alice: I will ship the report" and conversation
\* entries that have the speaker Alice, the output has the bullet
\* "Alice will ship the report.", and no bullet starts with the name twice
\* ("Alice Alice", "Alice alice").
SpeakerNamedOnce ==
  (/\ Returned
   /\ \E line \in LinesOf(fin.rawSummary) :
        Unmarked(line) = "Alice: I will ship the report"
   /\ "alice" \in SpeakerSet(fin.conversationEntries))
  => /\ (BULLET \o " Alice will ship the report.") \in LinesOf(fin.out)
     /\ \A line \in LinesOf(fin.out) :
          /\ ~StartsWith(line, BULLET \o " Alice Alice ")
          /\ ~StartsWith(line, BULLET \o " Alice alice ")

\* ---- a summary of one bullet line that is a question of a speaker
AskedLine == ColonMatch(Unmarked(trim(fin.rawSummary)))

IsQuestionCall ==
  /\ IsSingleLine(fin.rawSummary)
  /\ StartsWith(trim(fin.rawSummary), BULLET)
  /\ AskedLine.matched
  /\ EndsWithQuestionMark(AskedLine.statement)

\* the entries in which the asker says the question of the summary line
QuestionEntries ==
  {i \in DOMAIN fin.conversationEntries :
     /\ normalizeName(fin.conversationEntries[i].speaker) = normalizeName(AskedLine.speaker)
     /\ normalizeForMatch(fin.conversationEntries[i].content)
          = normalizeForMatch(AskedLine.statement)}

Least(S) == CHOOSE x \in S : \A y \in S : x <= y

\* the entries with a cue among the five that follow entry qi
CueEntries(qi) ==
  {j \in DOMAIN fin.conversationEntries :
     /\ j > qi /\ j <= qi + 5
     /\ classifyAnswerTone(fin.conversationEntries[j].content) # "null"}

AnswerPrefix(j) ==
  BULLET \o " " \o capitalizeWords(fin.conversationEntries[j].speaker)
  \o (IF classifyAnswerTone(fin.conversationEntries[j].content) = "positive"
      THEN " confirmed that " ELSE " reported that ")

AskedPrefix == BULLET \o " " \o capitalizeWords(AskedLine.speaker) \o " asked "

\* C5: when the summary line is a question of speaker S and the entries hold
\* S's question followed, within the next five entries, by an entry with an
\* affirmative or a negative cue, the bullet is "<Responder> confirmed that
\* ..." or "<Responder> reported that ..."; an entry six or more positions
\* after the question is not used, and without such a reply the bullet is
\* "<S> asked ...".
QuestionPairedWithReply ==
  (Returned /\ IsQuestionCall) =>
    LET bullet == SplitLines(fin.out)[Len(SplitLines(fin.out))]
    IN IF QuestionEntries # {} /\ CueEntries(Least(QuestionEntries)) # {}
       THEN StartsWith(bullet, AnswerPrefix(Least(CueEntries(Least(QuestionEntries)))))
       ELSE StartsWith(bullet, AskedPrefix)

\* ---- counting body lines
NonBlankCount(lines) == Cardinality({i \in DOMAIN lines : trim(lines[i]) # ""})

\* the lines after the first line of the raw summary
InputBody(raw) == Tail(SplitLines(trim(raw)))

\* the lines that bullet extraction works on: what follows the first colon of
\* the first line of the greeted summary, and the lines after the first
GreetedBody(call) ==
  LET greeted == SplitLines(trim(ensureGreeting(call.rawSummary, call.lookbackMinutes,
                                                call.rangeLabel, call.hour)))
      colon == IndexOf(greeted[1], ":")
  IN <<IF colon = 0 THEN "" ELSE From(greeted[1], colon + 1)>> \o Tail(greeted)

\* one for each non-blank line, and one more for each bullet marker inside it
BulletBound(lines) ==
  Cardinality(UNION {{<<i, k>> : k \in {1} \cup {m \in 2..Len(trim(lines[i])) :
                                                     At(trim(lines[i]), m) = BULLET}} :
                       i \in {j \in DOMAIN lines : trim(lines[j]) # ""}})

\* C6 as stated: the number of bullet lines of the output is at most the
\* number of non-empty lines after the first line of the raw summary.
BulletsWithinInputBody ==
  Returned => BulletLineCount(fin.out) <= NonBlankCount(InputBody(fin.rawSummary))

\* C6: the number of bullet lines of the output is at most the number of
\* non-empty lines of the body that bullet extraction works on (the text after
\* the first colon of the first line of the greeted summary, and the lines
\* after that line), counting a line once more for each bullet marker inside
\* it, when no speaker of the conversation has a bullet marker in the name.
BulletsWithinGreetedBody ==
  (/\ Returned
   /\ \A i \in DOMAIN fin.conversationEntries :
        ~Includes(fin.conversationEntries[i].speaker, BULLET))
  => BulletLineCount(fin.out) <= BulletBound(GreetedBody(fin))

\* a one-line summary with a bullet marker inside gave two bullets, as many
\* as the bound allows and more than the raw summary has body lines
BulletsExpanded ==
  /\ Returned
  /\ IsSingleLine(fin.rawSummary)
  /\ Includes(fin.rawSummary, " " \o BULLET \o " ")
  /\ BulletLineCount(fin.out) = 2
  /\ BulletBound(GreetedBody(fin)) = 2
  /\ NonBlankCount(InputBody(fin.rawSummary)) = 0

\* C7: finalizeSummary returns a string for every input: the empty string for
\* an empty or blank summary (no greeting is put on it, whatever the window
\* and the entries are) and a text that starts with a greeting for any other.
FinalizeTotal ==
  Returned =>
    /\ fin.out \in STRING
    /\ trim(fin.rawSummary) = "" <=> fin.out = ""
    /\ fin.out # "" => StartsWithGreeting(fin.out)

\* finalize("", {}, []) returned ""
EmptyStaysEmpty ==
  /\ Returned
  /\ fin.rawSummary = ""
  /\ fin.lookbackMinutes = 0 /\ fin.rangeLabel = ""
  /\ fin.conversationEntries = <<>>
  /\ fin.out = ""

GREETING_PHRASE == " Here is what happened in "

NoActionWord(bullet) == ~HasWord(toLowerCase(BulletText(bullet)), ActionWords)

\* C9: for every bullet that has none of the action words, the score of the
\* bullet with " must ship by Friday" appended is strictly greater than the
\* score of the bullet.
ActionSuffixRaisesScore ==
  (sc.pc = "returned" /\ NoActionWord(sc.bullet)) => sc.extended > sc.plain

\* the suffix took a long bullet over 120 characters, and the score still rose
LongBulletScoredHigher ==
  /\ sc.pc = "returned"
  /\ NoActionWord(sc.bullet)
  /\ Len(BulletText(sc.bullet)) <= 120
  /\ Len(BulletText(sc.bullet \o ACTION_SUFFIX)) > 120
  /\ sc.extended = sc.plain + 3

\* ---- the quiet window
\* a one-line summary with no greeting, no marker and no colon in it
IsPlainLine(raw) ==
  /\ IsSingleLine(raw)
  /\ ~StartsWithGreeting(trim(raw))
  /\ ~StartsWith(trim(raw), BULLET) /\ ~StartsWith(trim(raw), "-")

IsQuietCall ==
  /\ Returned
  /\ fin.conversationEntries = <<>>
  /\ IsPlainLine(fin.rawSummary)

BulletSources(call) == NonEmpty(TrimAll(GreetedBody(call)))

\* the line, without its marker, is made of emoji and nothing else
IsEmojiLine(line) ==
  Unmarked(line) # "" /\ Run(Unmarked(line), {EMOJI}) = Len(Unmarked(line))

\* the candidate bullets of the call: the body lines that gave a bullet
Candidates(call) ==
  TransformLines(BulletSources(call), call.conversationEntries,
                 SpeakerSet(call.conversationEntries))

\* C11: a body line made of emoji only, of any length, gets a score of at
\* most -5 inside the pipeline, and its bullet is absent from the output
\* unless no other bullet is a candidate.
EmojiBulletRejected ==
  Returned =>
    \A i \in DOMAIN BulletSources(fin) :
      IsEmojiLine(BulletSources(fin)[i]) =>
        LET bullet == transformLineToBullet(BulletSources(fin)[i],
                                            fin.conversationEntries,
                                            SpeakerSet(fin.conversationEntries))
        IN /\ scoreBullet(bullet) <= 0 - 5
           /\ (\E k \in DOMAIN Candidates(fin) : Candidates(fin)[k] # bullet)
                => bullet \notin LinesOf(fin.out)

\* ---- fetchMessagesBetween
FetchEnded == fetch # NoCall /\ fetch.pc \in {"returned", "thrown"}

PageFailureKeepsEarlier ==
  (FetchEnded /\ fetch.last.kind \in {"notOk", "notJson", "notArray"})
  => fetch.pc = "returned" /\ fetch.messages = fetch.earlier

\* ---- the operations of the buffer
\* the messages the buffer holds, each named by its chat and its id
StoredIds(store) ==
  UNION {{<<c, store[c][i].messageId>> : i \in DOMAIN store[c]} : c \in DOMAIN store}

\* C19 as stated: a stored message leaves the buffer only in a step of
\* addTelegramMessage, by its trim; no other operation of the store removes a
\* message.
RemovedOnlyByInsert ==
  [][(StoredIds(messageStore) \ StoredIds(messageStore') # {}) => inserts' = inserts + 1]_vars

\* C19: a stored message leaves the buffer only in a step of
\* addTelegramMessage, by its trim, or in a step of clearTelegramMessages,
\* which drops the whole buffer of a chat; a step that is neither (a read, a
\* reaction update, the clock) leaves the set of stored messages as it was.
RemovedByInsertOrClear ==
  [][/\ (StoredIds(messageStore) \ StoredIds(messageStore') # {}) =>
          (inserts' = inserts + 1 \/ ops'.clears = ops.clears + 1)
     /\ (inserts' = inserts /\ ops'.clears = ops.clears) =>
          StoredIds(messageStore') = StoredIds(messageStore)
     /\ ops'.reads = ops.reads + 1 =>
          /\ messageStore' = messageStore
          /\ \A i \in DOMAIN ops'.result :
               <<7, ops'.result[i].messageId>> \in StoredIds(messageStore)
               \/ <<8, ops'.result[i].messageId>> \in StoredIds(messageStore)]_vars

\* an insert into chat 7 has trimmed messages away, a read has been answered
\* and then the chat's buffer has been cleared
TrimmedThenCleared ==
  /\ ops # NoCall
  /\ ops.clears = 1
  /\ ops.reads = 1
  /\ lastInsert # NoInsert
  /\ lastInsert.chatId = 7
  /\ 7 \in DOMAIN lastInsert.before
  /\ Len(lastInsert.after[7]) < Len(lastInsert.before[7])
  /\ 7 \notin DOMAIN messageStore

\* ---- the orchestrators
Discord == req # NoCall /\ req.path \in {"entrypoint", "execute"}
Telegram == req # NoCall /\ req.path = "telegram"
Completed == req # NoCall /\ req.pc \in {"returned", "rejected", "failed"}

IsAscending(messages) ==
  \A i \in DOMAIN messages, j \in DOMAIN messages :
    i < j => messages[i].timestamp <= messages[j].timestamp

\* C12: on each of the three paths the messages of the LLM payload are in
\* ascending order of their timestamps, messages of one timestamp in the order
\* they came in, and the lines of the transcript are in that order too,
\* whatever the order the messages were fetched or stored in.
MessagesAscending ==
  (req # NoCall /\ req.llmCalls = 1) =>
    /\ req.payload = SortByTimestamp(req.payload)
    /\ IsAscending(req.payload)
    /\ Discord => req.conversation = formatUnsorted(SortByTimestamp(req.messages))

\* the LLM is not configured, its call has thrown, or its summary is empty
LlmUnavailable ==
  \/ ~req.llm /\ req.pc \notin {"received", "fetching", "rejected", "failed"}
  \/ req.result.kind = "throws"
  \/ req.result.kind = "summary" /\ trim(req.result.summary) = ""

\* C13: on each of the three paths, when the LLM is not configured, when its
\* call throws and when it returns an empty summary, the handler returns a
\* summary that is not empty and that the LLM did not write; a handler fails
\* only before the LLM is called.
LlmFailureGivesSummary ==
  req # NoCall =>
    /\ req.pc = "failed" => req.llmCalls = 0
    /\ LlmUnavailable =>
         /\ req.pc = "returned"
         /\ req.summary # ""
         /\ req.via \in {"finalized", "social", "default", "empty"}

\* the LLM call of a Discord request has thrown and the handler has returned
\* the finalized transcript
LlmThrewSummaryGiven ==
  /\ Discord
  /\ req.result.kind = "throws"
  /\ req.pc = "returned"
  /\ req.via = "finalized"
  /\ req.summary # ""

\* C14: a request whose LLM call never ends is completed all the same: the
\* handler returns, or refuses the input, or fails.
RequestCompletes == <>Completed

\* the LLM has returned a summary that is neither empty nor a quiet-hour line
LlmUsable ==
  /\ req.result.kind = "summary"
  /\ trim(req.result.summary) # ""
  /\ ~IsQuietHour(req.result.summary)

WindowInputsValidated ==
  (/\ Discord
   /\ \/ req.lookbackMinutes # 0 /\ (req.startMessageUrl # "" \/ req.endMessageUrl # "")
      \/ (req.startMessageUrl # "") # (req.endMessageUrl # "")
      \/ req.lookbackMinutes = 0 /\ ~(req.startMessageUrl # "" /\ req.endMessageUrl # ""))
  => /\ req.pc \in {"received", "rejected"}
     /\ req.fetches = 0

\* the text is a command, or has nothing but white space in it
IsCommandOrBlank(text) == trim(text) = "" \/ At(trim(text), 1) = "/"

\* the inbound messages that have a chat id and a text that is no command
Storable ==
  {i \in DOMAIN ops.seen :
     ops.seen[i].chatId # 0 /\ ~IsCommandOrBlank(ops.seen[i].text)}

\* the places in the buffers where message messageId is stored
PlacesOf(messageId) ==
  {<<c, k>> \in UNION {{c} \X DOMAIN messageStore[c] : c \in DOMAIN messageStore} :
     messageStore[c][k].messageId = messageId}

\* C20: an inbound message whose trimmed text is empty or starts with "/",
\* or that has no chat id, is not in the buffer; every other inbound message
\* has been given to addTelegramMessage once and is in the buffer of its chat
\* once; and no text of the payload of the Telegram entrypoint is empty or
\* starts with "/".
OnlyNonCommandsStored ==
  (Telegram /\ ops # NoCall) =>
    /\ inserts = Cardinality(Storable)
    /\ \A i \in DOMAIN ops.seen :
         IF i \in Storable
         THEN /\ Cardinality(PlacesOf(ops.seen[i].messageId)) = 1
              /\ \A p \in PlacesOf(ops.seen[i].messageId) : p[1] = ops.seen[i].chatId
         ELSE PlacesOf(ops.seen[i].messageId) = {}
    /\ \A i \in DOMAIN req.payload :
         req.payload[i].text # "" /\ ~StartsWith(req.payload[i].text, "/")

\* a command and a text message have arrived in chat 7, and the payload of
\* the request holds the text message alone
CommandKeptOut ==
  /\ Telegram /\ ops # NoCall
  /\ req.pc = "awaiting"
  /\ \E i \in DOMAIN ops.seen : ops.seen[i].chatId = 7 /\ ops.seen[i].text = "/summarise 60"
  /\ \E i \in DOMAIN ops.seen : ops.seen[i].chatId = 7 /\ ops.seen[i].text = "ship it friday"
  /\ Len(req.payload) = 1
  /\ req.payload[1].text = "ship it friday"

\* ---- the sweep
\* the tokens whose payment request was registered, then removed from the map
\* without any callback having found the entry
SweptTokens ==
  {issued[i].token : i \in {j \in DOMAIN issued :
     /\ issued[j].token \in published
     /\ issued[j].token \notin DOMAIN commands
     /\ issued[j].token \notin DOMAIN PendingMap(issued[j].platform)
     /\ Consumed(consumed, issued[j].platform, issued[j].token).found = 0}}

\* C21: a run of the sweep at time now leaves, in each pending map, no entry
\* with expiresAt < now; every entry with expiresAt >= now that was in the
\* map before the run is still there with the same data; and the run adds no
\* entry.
SweepEffect ==
  [][Sweep =>
       \A p \in Platforms :
         /\ \A k \in DOMAIN PendingMap(p)' : ~(PendingMap(p)'[k].expiresAt < now)
         /\ \A k \in DOMAIN PendingMap(p) :
              PendingMap(p)[k].expiresAt >= now =>
                /\ k \in DOMAIN PendingMap(p)'
                /\ PendingMap(p)'[k] = PendingMap(p)[k]
         /\ DOMAIN PendingMap(p)' \subseteq DOMAIN PendingMap(p)]_vars

\* a sweep has removed an expired entry and kept one that expires at the
\* very time of the run
SweptOneKeptOne ==
  /\ nextSweep > SWEEP_INTERVAL_MS
  /\ SweptTokens # {}
  /\ \E p \in Platforms : \E k \in DOMAIN PendingMap(p) :
       PendingMap(p)[k].expiresAt = now

\* ---- registration and publication
\* the answer a callback carrying the i-th token, as the /pay page sends it,
\* would get now
AnswerNow(i) ==
  CallbackLookup(PendingMap(issued[i].platform), issued[i].encoded).status

\* C24: the entry of a token is in the map from the moment the payment
\* message with the token's link is visible, so a callback arriving after
\* that, before the entry expired and was swept and before it was consumed,
\* finds the entry and is not answered 404.
RegisteredWhenPublished ==
  \A i \in DOMAIN issued :
    (/\ issued[i].token \in published
     /\ Consumed(consumed, issued[i].platform, issued[i].token).found = 0
     /\ issued[i].token \notin SweptTokens)
    => /\ issued[i].token \in DOMAIN PendingMap(issued[i].platform)
       /\ AnswerNow(i) # 404

\* ---- expiry
\* C25: a callback whose token's entry has expiresAt earlier than the current
\* time does not find the entry (it is answered 404) and starts no posting to
\* the chat, whether or not the sweep has run since the expiry.
ExpiredNotHonoured ==
  [][\A p \in Platforms : \A k \in DOMAIN PendingMap(p) :
       PendingMap(p)[k].expiresAt < now =>
         /\ Consumed(consumed, p, k)'.found = Consumed(consumed, p, k).found
         /\ DeliveriesOf(p, k)' = DeliveriesOf(p, k)]_vars

\* ---- the life of an entry
\* the i-th token has its entry in the map
Pending(i) ==
  /\ i \in DOMAIN issued
  /\ issued[i].token \in DOMAIN PendingMap(issued[i].platform)

\* C26: with the sweep running whenever it is due and time advancing, every
\* entry put into one of the pending maps is eventually removed from it.
EntryEventuallyRemoved ==
  \A i \in 1..MaxCommands : Pending(i) ~> ~Pending(i)

\* one entry was consumed by its callback, another deleted by the sweep
OneConsumedOneSwept ==
  /\ SweptTokens # {}
  /\ \E i \in DOMAIN issued :
       Consumed(consumed, issued[i].platform, issued[i].token).found = 1

\* ---- settlement
\* C27: for each gated request settle is attempted at most once, and only
\* after verify reported the payment valid and the handler returned a status
\* below 400; a request whose handler returned 400 or more is never settled;
\* when settle throws or is unsuccessful the handler's response still goes
\* out with its own status and without the X-PAYMENT-RESPONSE header, which
\* is set exactly when the settlement succeeded.
SettledAfterSuccess ==
  \A i \in DOMAIN requests :
    LET r == requests[i]
    IN IsGated(r.pathname) =>
         /\ r.settleCalls <= 1
         /\ r.settleCalls > 0 =>
              r.verify = "valid" /\ r.handlerCalls = 1
              /\ r.appStatus # 0 /\ r.appStatus < 400
         /\ r.appStatus >= 400 => r.settleCalls = 0 /\ r.settle = "none"
         /\ r.settle # "none" => r.settleCalls = 1 /\ r.pc = "done"
         /\ (r.pc = "done" /\ r.settle \in {"throws", "failed"}) =>
              r.status = r.appStatus /\ ~r.paymentResponse
         /\ (r.pc = "done" /\ r.handlerCalls > 0) =>
              /\ r.status = r.appStatus
              /\ r.paymentResponse <=> r.settle = "success"

\* one paid request went out unsettled after settle threw, another with the
\* header after a settlement that succeeded on a status just below 400
SettleThrewAndSucceeded ==
  \E i, j \in DOMAIN requests :
    /\ IsGated(requests[i].pathname) /\ IsGated(requests[j].pathname)
    /\ requests[i].pc = "done" /\ requests[i].settle = "throws"
    /\ requests[i].status = 200 /\ ~requests[i].paymentResponse
    /\ requests[j].pc = "done" /\ requests[j].settle = "success"
    /\ requests[j].status = 399 /\ requests[j].paymentResponse

\* ---- the window of the fetched messages
FetchedIds == {fn.messages[i].id : i \in DOMAIN fn.messages}

\* C28: every message fetchMessagesBetween returns has its timestamp within
\* the window, and no message id is returned twice; with message links the
\* result holds the start message and the end message whenever the platform
\* returned them, and no message with an id greater than the end message's.
WindowMembership ==
  (fn.pc = "returned" /\ fn.name = "fetchMessagesBetween") =>
    /\ \A i \in DOMAIN fn.messages :
         fn.start <= fn.messages[i].timestamp /\ fn.messages[i].timestamp <= fn.end
    /\ \A i, j \in DOMAIN fn.messages :
         i # j => fn.messages[i].id # fn.messages[j].id
    /\ fn.endMessageId # 0 =>
         /\ fn.startMessageId \in fn.batches => fn.startMessageId \in FetchedIds
         /\ fn.endMessageId \in fn.batches => fn.endMessageId \in FetchedIds
         /\ \A i \in DOMAIN fn.messages : fn.messages[i].id <= fn.endMessageId

\* ---- the bullets kept
\* the places of the bullets that score 0 or more
Kept(bullets) == {i \in DOMAIN bullets : scoreBullet(bullets[i]) >= 0}

\* the k-th smallest member of a set of numbers
NthOf(S, k) == CHOOSE i \in S : Cardinality({j \in S : j < i}) = k - 1

\* the first bullet that no bullet outscores
IsFirstBest(bullets, i) ==
  /\ \A j \in DOMAIN bullets : scoreBullet(bullets[j]) <= scoreBullet(bullets[i])
  /\ \A j \in DOMAIN bullets : j < i => scoreBullet(bullets[j]) < scoreBullet(bullets[i])

\* C29: when a bullet scores 0 or more, filterAndRankBullets returns exactly
\* the bullets scoring 0 or more, in their original order; when the list is
\* not empty and every bullet scores below 0, it returns the one bullet with
\* the highest score, the earliest on a tie; it returns nothing only for an
\* empty list, and normalizeSummaryBullets then returns the intro line
\* followed by the body text as it is.
BulletsFilteredAndRanked ==
  /\ (fn.pc = "returned" /\ fn.name = "filterAndRankBullets") =>
       /\ Kept(fn.bullets) # {} =>
            /\ Len(fn.result) = Cardinality(Kept(fn.bullets))
            /\ \A k \in DOMAIN fn.result :
                 fn.result[k] = fn.bullets[NthOf(Kept(fn.bullets), k)]
       /\ (Kept(fn.bullets) = {} /\ fn.bullets # <<>>) =>
            /\ Len(fn.result) = 1
            /\ \E i \in DOMAIN fn.bullets :
                 IsFirstBest(fn.bullets, i) /\ fn.result[1] = fn.bullets[i]
       /\ fn.result = <<>> <=> fn.bullets = <<>>
  /\ (fn.pc = "returned" /\ fn.name = "normalizeSummaryBullets" /\ fn.bullets = <<>>) =>
       fn.result = fn.introLine \o "\n" \o fn.bodyText

\* every bullet of the list scored below 0, two of them shared the highest
\* score, and the first of the two was returned
EarliestOfTiedKept ==
  /\ fn.pc = "returned" /\ fn.name = "filterAndRankBullets"
  /\ \E i, j \in DOMAIN fn.bullets :
       /\ i < j /\ fn.bullets[i] # fn.bullets[j]
       /\ scoreBullet(fn.bullets[i]) = scoreBullet(fn.bullets[j])
       /\ scoreBullet(fn.bullets[i]) < 0
       /\ IsFirstBest(fn.bullets, i)
       /\ fn.result = <<fn.bullets[i]>>

\* ---- the posting of the summary
\* how many POSTs of delivery d have shown the summary in the chat
Posted(d) ==
  (IF deliveries[d].post = "ok" THEN 1 ELSE 0)
  + (IF deliveries[d].retry = "ok" THEN 1 ELSE 0)

\* C23: for each consumed callback token the summary is posted to the chat
\* at most once, however the platform POST, the 5-second timeout and the
\* retry task interleave.
SummaryPostedOnce ==
  \A p \in Platforms : \A k \in DOMAIN consumed[p] :
    \A d \in DeliveriesOf(p, k) : Posted(d) <= 1

\* ---- the speakers of the transcript
\* the place of a message in the transcript: the timestamps of a call differ
PlaceOf(messages, i) ==
  1 + Cardinality({j \in DOMAIN messages : messages[j].timestamp < messages[i].timestamp})

\* the speaker of a transcript line: what stands before ": "
SpeakerOf(line) == Take(line, IndexOf(line, ": ") - 1)

\* the names the stated order allows for an author: the display name when
\* there is one, else the username or the global name, else the literal
PreferredNames(author) ==
  IF author.display_name # "" THEN {author.display_name}
  ELSE IF author.username # "" \/ author.global_name # ""
       THEN {author.username, author.global_name} \ {""}
  ELSE {"Unknown user"}

\* C22: in the transcript the speaker of a message is its author's display
\* name when the author has one, whatever other name fields are set, else
\* the username or global name, and "Unknown user" only when no name field
\* is set.
SpeakerByPreference ==
  (fn.pc = "returned" /\ fn.name = "formatConversation") =>
    \A i \in DOMAIN fn.messages :
      SpeakerOf(SplitLines(fn.result)[PlaceOf(fn.messages, i)])
        \in PreferredNames(fn.messages[i].author)

\* ---- the lookback
\* the value a handler's call handed to validateLookback, and whether it
\* made that call at all
ArgumentOf(call) ==
  CASE call.name = "discord" -> Coalesce(call.input, NumberValue(Num(60)))
    [] call.name = "telegram" -> StringValue(SplitSpaces(trim(call.input.text))[2])
    [] call.name = "pay" -> call.input

WasValidated(call) ==
  CASE call.name = "discord" -> TRUE
    [] call.name = "telegram" -> Len(SplitSpaces(trim(call.input.text))) >= 2
    [] call.name = "pay" -> call.input # Null /\ call.id # ""

\* Number(v) is finite and 1 <= floor(Number(v)) <= 480
InRange(v) ==
  /\ isFinite(Number(v))
  /\ MathFloor(Number(v)) >= 1
  /\ MathFloor(Number(v)) <= MAX_LOOKBACK_MINUTES

\* the entries and the commands on their way to one
PendingLookbacks ==
  {pendingDiscordCallbacks[t].lookbackMinutes : t \in DOMAIN pendingDiscordCallbacks}
    \cup {pendingTelegramCallbacks[t].lookbackMinutes : t \in DOMAIN pendingTelegramCallbacks}
    \cup {commands[t].lookbackMinutes : t \in DOMAIN commands}

LookbackAnswered ==
  (fn # NoCall /\ fn.name \in {"discord", "telegram", "pay"}) =>
    IF WasValidated(fn)
    THEN IF InRange(ArgumentOf(fn))
         THEN fn.result = [minutes |-> MathFloor(Number(ArgumentOf(fn)))]
         ELSE "error" \in DOMAIN fn.result
    ELSE fn.name = "telegram" => fn.result = [minutes |-> DEFAULT_LOOKBACK_MINUTES]

RefusedIssuesNothing ==
  (fn' # fn /\ "error" \in DOMAIN fn'.result) =>
    UNCHANGED <<issued, commands, published, pendingDiscordCallbacks,
                pendingTelegramCallbacks>>

\* C30: validateLookback(v) returns { minutes: floor(Number(v)) } exactly when
\* Number(v) is finite and its floor is in 1..480, and an error otherwise;
\* the Discord command, the Telegram command (60 without an argument) and
\* the /pay page answer a lookback that fails with the error and issue
\* nothing; every pending entry's lookbackMinutes is an integer in 1..480.
LookbackValidated ==
  /\ [](LookbackAnswered /\ PendingLookbacks \subseteq 1..MAX_LOOKBACK_MINUTES)
  /\ [][RefusedIssuesNothing]_vars

\* an entry registered for 480 minutes after "/summarise 480.9", and then a
\* Discord command with 0.5 minutes refused
FlooredThenRefused ==
  /\ \E t \in DOMAIN pendingTelegramCallbacks :
       pendingTelegramCallbacks[t].lookbackMinutes = 480
  /\ Len(issued) = 1
  /\ fn # NoCall
  /\ fn.name = "discord"
  /\ fn.input = NumberValue(Finite(FALSE, 0, TRUE))
  /\ "error" \in DOMAIN fn.result

(***************************************************************************)
(* Specifications                                                          *)
(***************************************************************************)
\* ---- the pending callbacks: commands, callbacks, deliveries, sweep, clock
Init == PendingInit /\ StoreIdle /\ GateIdle /\ PipeIdle

Next ==
  \/ \E c \in ChatIds, text \in SummariseTexts : TelegramSummariseCommand(c, text)
  \/ \E c \in ChatIds, value \in MinutesOptions : DiscordSummariseCommand(c, value)
  \/ \E t \in DOMAIN commands, ok \in BOOLEAN : PaymentMessageSent(t, ok)
  \/ \E t \in DOMAIN commands : RegisterPending(t)
  \/ \E b \in BodyTokens : handleDiscordCallback(b)
  \/ \E b \in BodyTokens : handleTelegramCallback(b)
  \/ Sweep
  \/ \E d \in TickSteps : Tick(d)

Spec == Init /\ [][Next]_vars

\* The timer of setInterval fires whenever the sweep is due, and the clock
\* does not stop while an entry is pending.
NextLive == Next \/ TimePasses

SpecLive ==
  /\ Init /\ [][NextLive]_vars
  /\ WF_vars(Sweep)
  /\ WF_vars(TimePasses)

\* ---- the posting of the summary after a callback has taken its entry: the
\* behaviours start with one paid-for request registered on each platform
InitDelivery ==
  /\ now = 0 /\ ticks = 0 /\ nextSweep = SWEEP_INTERVAL_MS
  /\ botToken = TRUE
  /\ issued = <<[token |-> FreshId(1), platform |-> "discord",
                 encoded |-> encodeURIComponent(FreshId(1))],
                [token |-> TelegramToken(7, 0, FreshId(2)), platform |-> "telegram",
                 encoded |-> encodeURIComponent(TelegramToken(7, 0, FreshId(2)))]>>
  /\ commands = EmptyMap
  /\ published = IssuedTokens
  /\ pendingDiscordCallbacks =
       MapSet(EmptyMap, FreshId(1),
              [chatId |-> 7, lookbackMinutes |-> DEFAULT_LOOKBACK_MINUTES,
               expiresAt |-> PAYMENT_CALLBACK_EXPIRY_MS])
  /\ pendingTelegramCallbacks =
       MapSet(EmptyMap, TelegramToken(7, 0, FreshId(2)),
              [chatId |-> 7, lookbackMinutes |-> DEFAULT_LOOKBACK_MINUTES,
               expiresAt |-> PAYMENT_CALLBACK_EXPIRY_MS])
  /\ deliveries = <<>>
  /\ consumed = [p \in Platforms |-> EmptyMap]
  /\ StoreIdle /\ GateIdle /\ PipeIdle

NextDelivery ==
  \/ \E b \in BodyTokens : handleDiscordCallback(b)
  \/ \E b \in BodyTokens : handleTelegramCallback(b)
  \/ \E d \in DOMAIN deliveries, o \in PostOutcomes : PostCompletes(d, o)
  \/ \E d \in DOMAIN deliveries : RaceTimeout(d)
  \/ \E d \in DOMAIN deliveries, o \in PostOutcomes : RetryPost(d, o)

SpecDelivery == InitDelivery /\ [][NextDelivery]_vars

\* ---- the Telegram message buffer
InitStore ==
  /\ now = StoreStart /\ ticks = 0 /\ nextSweep = StoreStart + SWEEP_INTERVAL_MS
  /\ botToken = TRUE
  /\ pendingDiscordCallbacks = EmptyMap /\ pendingTelegramCallbacks = EmptyMap
  /\ issued = <<>> /\ commands = EmptyMap /\ published = {}
  /\ deliveries = <<>> /\ consumed = [p \in Platforms |-> EmptyMap]
  /\ StoreInit /\ GateIdle /\ PipeIdle

NextStore ==
  \/ \E c \in StoreChats, t \in ArrivalTimes : AddMessage(c, t)
  \/ \E c \in StoreChats : UpdateReactions(c, nextMessageId - 1, 2)
  \/ \E d \in {1000, DAY_MS} : StoreTick(d)

SpecStore == InitStore /\ [][NextStore]_vars

\* ---- the payment gate
InitGate ==
  /\ PendingInit /\ botToken
  /\ StoreIdle /\ GateInit /\ PipeIdle

NextGate ==
  \/ \E p \in Pathnames, h \in PaymentHeaders : GateRequest(p, h)
  \/ \E i \in DOMAIN requests, o \in VerifyOutcomes : GateVerify(i, o)
  \/ \E i \in DOMAIN requests, a \in AppStatuses : GateApp(i, a)
  \/ \E i \in DOMAIN requests, o \in SettleOutcomes : GateSettle(i, o)

SpecGate == InitGate /\ [][NextGate]_vars

\* ---- the summary pipeline: finalizeSummary
InitIdle ==
  /\ now = 0 /\ ticks = 0 /\ nextSweep = SWEEP_INTERVAL_MS
  /\ botToken = TRUE
  /\ pendingDiscordCallbacks = EmptyMap /\ pendingTelegramCallbacks = EmptyMap
  /\ issued = <<>> /\ commands = EmptyMap /\ published = {}
  /\ deliveries = <<>> /\ consumed = [p \in Platforms |-> EmptyMap]
  /\ StoreIdle /\ GateIdle

InitFinalize ==
  /\ InitIdle
  /\ fin \in FinalizeCalls
  /\ sc = NoCall /\ FlowIdle /\ fn = NoCall

NextFinalize ==
  \/ Finalize
  \/ \E h \in {fin.hour, 23} : FinalizeAgain(h)

SpecFinalize == InitFinalize /\ [][NextFinalize]_vars

\* ---- the summary pipeline: scoreBullet
InitScore ==
  /\ InitIdle
  /\ fin = NoCall /\ FlowIdle /\ fn = NoCall
  /\ sc \in {ScoreCall(b) : b \in ScoredBullets}

NextScore == Score

SpecScore == InitScore /\ [][NextScore]_vars

\* ---- fetchMessagesBetween
InitFetch ==
  /\ InitIdle
  /\ fin = NoCall /\ sc = NoCall /\ fn = NoCall
  /\ fetch = FetchCall /\ req = NoCall /\ ops = NoCall

NextFetch == \E r \in PlatformResponses : FetchPage(r)

SpecFetch == InitFetch /\ [][NextFetch]_vars

\* the store operations: inserts, reaction updates, reads, clears and the
\* clock, on a buffer that is empty or holds Held messages that have just
\* arrived in chat 7
InitStoreOps ==
  /\ now = StoreStart /\ ticks = 0 /\ nextSweep = StoreStart + SWEEP_INTERVAL_MS
  /\ botToken = TRUE
  /\ pendingDiscordCallbacks = EmptyMap /\ pendingTelegramCallbacks = EmptyMap
  /\ issued = <<>> /\ commands = EmptyMap /\ published = {}
  /\ deliveries = <<>> /\ consumed = [p \in Platforms |-> EmptyMap]
  /\ \/ messageStore = EmptyMap /\ nextMessageId = 1
     \/ messageStore = MapSet(EmptyMap, 7, HeldBuffer) /\ nextMessageId = Held + 1
  /\ inserts = 0 /\ lastInsert = NoInsert
  /\ GateIdle
  /\ fin = NoCall /\ sc = NoCall /\ fetch = NoCall /\ req = NoCall /\ fn = NoCall
  /\ ops = StoreOps

NextStoreOps ==
  \/ \E chatId \in StoreChats, timestampMs \in ArrivalTimes : AddMessage(chatId, timestampMs)
  \/ \E chatId \in StoreChats, messageId \in {1, 2}, reactionCount \in {0, 3} : UpdateReactions(chatId, messageId, reactionCount)
  \/ \E chatId \in StoreChats, lookbackMinutes \in {DEFAULT_LOOKBACK_MINUTES, MAX_LOOKBACK_MINUTES} : ReadMessages(chatId, lookbackMinutes)
  \/ \E chatId \in StoreChats : ClearMessages(chatId)
  \/ \E d \in {1000, DAY_MS} : StoreTick(d)

SpecStoreOps == InitStoreOps /\ [][NextStoreOps]_vars

\* ---- the summarise orchestrators: one request, and for a Telegram request
\* the messages that arrive before it
InitSummarise ==
  /\ now = StoreStart /\ ticks = 0 /\ nextSweep = StoreStart + SWEEP_INTERVAL_MS
  /\ botToken = TRUE
  /\ pendingDiscordCallbacks = EmptyMap /\ pendingTelegramCallbacks = EmptyMap
  /\ issued = <<>> /\ commands = EmptyMap /\ published = {}
  /\ deliveries = <<>> /\ consumed = [p \in Platforms |-> EmptyMap]
  /\ StoreIdle /\ GateIdle
  /\ fin = NoCall /\ sc = NoCall /\ fetch = NoCall /\ fn = NoCall
  /\ req \in SummariseRequests
  /\ ops = Inbound

NextSummarise ==
  \/ \E chatId \in InboundChats, text \in InboundTexts, date \in InboundDates : OnMessage(chatId, text, date)
  \/ SummariseChat
  \/ ExecuteSummariseChat
  \/ \E result \in FetchResults : MessagesFetched(result)
  \/ SummariseTelegramChat
  \/ \E result \in LlmResults : LlmAnswers(result)

SpecSummarise == InitSummarise /\ [][NextSummarise]_vars

\* The handlers run on whenever they can, and the platform answers every
\* fetch; nothing makes the LLM call end.
SpecSummariseLive ==
  /\ SpecSummarise
  /\ WF_vars(SummariseChat)
  /\ WF_vars(ExecuteSummariseChat)
  /\ WF_vars(SummariseTelegramChat)
  /\ WF_vars(\E result \in FetchResults : MessagesFetched(result))

\* ---- formatConversation on messages whose authors have every combination
\* of name fields
InitFormat ==
  /\ InitIdle
  /\ fin = NoCall /\ sc = NoCall /\ FlowIdle
  /\ fn \in FormatCalls

NextFormat == FormatConversation

SpecFormat == InitFormat /\ [][NextFormat]_vars

\* ---- fetchMessagesBetween on a channel of a little more than one page
InitWindow ==
  /\ InitIdle
  /\ fin = NoCall /\ sc = NoCall /\ FlowIdle
  /\ fn \in WindowCalls

NextWindow == \E ok \in BOOLEAN, newestFirst \in BOOLEAN : FetchBatch(ok, newestFirst)

SpecWindow == InitWindow /\ [][NextWindow]_vars

\* ---- filterAndRankBullets on lists of bullets, and normalizeSummaryBullets
\* on summaries with and without a bullet in the body
InitRank ==
  /\ InitIdle
  /\ fin = NoCall /\ sc = NoCall /\ FlowIdle
  /\ fn \in RankCalls \cup NormalizeCalls

NextRank == RankBullets \/ NormalizeBullets

SpecRank == InitRank /\ [][NextRank]_vars

\* ---- the summarise commands and the /pay page with lookbacks of every
\* kind, up to the registration of the entries
SummariseMessages == {"/summarise", "/summarise 1", "/summarise 480.9", "/summarise 0.5", "/summarise 481", "/summarise abc", "/summarise -3 60", "/summarise 0x10"}

MinutesValues == {Undefined, Null, NumberValue(Num(1)), NumberValue(Num(0)), NumberValue(Num(-1)), NumberValue(Finite(FALSE, 0, TRUE)), NumberValue(Finite(FALSE, 480, TRUE)), NumberValue(Num(481)), StringValue("1e2"), StringValue("Infinity"), BooleanValue(TRUE)}

LookbackParams == {Null, StringValue(""), StringValue("60"), StringValue(" 480.9"), StringValue("-0.5"), StringValue("60m")}

NextLookback ==
  \/ \E c \in ChatIds, text \in SummariseMessages : TelegramSummarise(c, text)
  \/ \E c \in ChatIds, value \in MinutesValues : DiscordSummarise(c, value)
  \/ \E id \in {"", "7"}, param \in LookbackParams : PayPage(id, param)
  \/ \E t \in DOMAIN commands, ok \in BOOLEAN : PaymentMessageSent(t, ok)
  \/ \E t \in DOMAIN commands : RegisterPending(t)

SpecLookback == Init /\ [][NextLookback]_vars

=============================================================================
